---- MODULE Spec2Model ----
(***************************************************************************)
(* A model of the nestjs-jsonapi serializer: the query-plan parser          *)
(* (SerializerService.getAutoOptions), the in-memory collection engine      *)
(* (applyFiltering / applySorting / applyPagination), the attribute and     *)
(* relationship projectors, the include resolver and the repository proxy.  *)
(*                                                                          *)
(* JavaScript values are tagged records [t, v]; strings are sequences of    *)
(* one-character strings so that split, trim, startsWith, includes and      *)
(* toLowerCase are computed, not assumed.                                   *)
(***************************************************************************)
EXTENDS Integers, Sequences, FiniteSets, TLC

VARIABLES pc, request, registry, serializer, data, options, result

vars == <<pc, request, registry, serializer, data, options, result>>

----------------------------------------------------------------------------
(* JavaScript values *)

Undefined == [t |-> "undefined", v |-> 0]
Null == [t |-> "null", v |-> 0]
Num(n) == [t |-> "num", v |-> n]
Str(s) == [t |-> "str", v |-> s]
Bool(b) == [t |-> "bool", v |-> b]
Arr(s) == [t |-> "array", v |-> s]
Obj(f) == [t |-> "object", v |-> f]

\* item[key]: a property that is not on the object reads as undefined
Get(o, k) == IF k \in DOMAIN o THEN o[k] ELSE Undefined

\* value.key on any value: a property read on a non-object value here is undefined
Prop(x, k) == IF x.t = "object" THEN Get(x.v, k) ELSE Undefined

\* JavaScript truthiness: undefined, null, false, 0, NaN and "" are falsy
Truthy(x) ==
  CASE x.t = "undefined" -> FALSE
    [] x.t = "null" -> FALSE
    [] x.t = "nan" -> FALSE
    [] x.t = "bool" -> x.v
    [] x.t = "num" -> x.v # 0
    [] x.t = "str" -> x.v # <<>>
    [] OTHER -> TRUE

Min(a, b) == IF a < b THEN a ELSE b
Max(a, b) == IF a > b THEN a ELSE b

----------------------------------------------------------------------------
(* Strings as character sequences *)

Digits == <<"0", "1", "2", "3", "4", "5", "6", "7", "8", "9">>

RECURSIVE NatToStr(_)
NatToStr(n) ==
  IF n < 10 THEN <<Digits[n + 1]>>
  ELSE NatToStr(n \div 10) \o <<Digits[(n % 10) + 1]>>

\* Number.prototype.toString for integers
NumToStr(n) == IF n < 0 THEN <<"-">> \o NatToStr(0 - n) ELSE NatToStr(n)

\* String(x) / x.toString(): an array joins the strings of its elements with commas
\* (null and undefined elements give the empty string), a plain object gives [object Object]
RECURSIVE ToStr(_)
RECURSIVE JoinElements(_)
JoinElements(elements) ==
  IF elements = <<>> THEN <<>>
  ELSE (IF Head(elements).t \in {"null", "undefined"} THEN <<>> ELSE ToStr(Head(elements)))
       \o (IF Len(elements) = 1 THEN <<>> ELSE <<",">> \o JoinElements(Tail(elements)))

ToStr(x) ==
  CASE x.t = "num" -> NumToStr(x.v)
    [] x.t = "str" -> x.v
    [] x.t = "bool" -> IF x.v THEN <<"t", "r", "u", "e">> ELSE <<"f", "a", "l", "s", "e">>
    [] x.t = "null" -> <<"n", "u", "l", "l">>
    [] x.t = "nan" -> <<"N", "a", "N">>
    [] x.t = "array" -> JoinElements(x.v)
    [] x.t = "object" -> <<"[", "o", "b", "j", "e", "c", "t", " ", "O", "b", "j", "e", "c", "t", "]">>
    [] OTHER -> <<"u", "n", "d", "e", "f", "i", "n", "e", "d">>

StartsWith(s, p) == Len(p) <= Len(s) /\ SubSeq(s, 1, Len(p)) = p

EndsWith(s, p) == Len(p) <= Len(s) /\ SubSeq(s, Len(s) - Len(p) + 1, Len(s)) = p

\* String.prototype.includes
Includes(s, p) == \E i \in 0..(Len(s) - Len(p)) : SubSeq(s, i + 1, i + Len(p)) = p

\* index of the first occurrence of character c in s, 0 when there is none
RECURSIVE IndexOfFrom(_, _, _)
IndexOfFrom(s, c, i) ==
  IF i > Len(s) THEN 0
  ELSE IF s[i] = c THEN i
  ELSE IndexOfFrom(s, c, i + 1)

IndexOf(s, c) == IndexOfFrom(s, c, 1)

\* String.prototype.split with a one-character separator
RECURSIVE Split(_, _)
Split(s, c) ==
  LET i == IndexOf(s, c) IN
  IF i = 0 THEN <<s>>
  ELSE <<SubSeq(s, 1, i - 1)>> \o Split(SubSeq(s, i + 1, Len(s)), c)

RECURSIVE TrimLeft(_)
TrimLeft(s) == IF s # <<>> /\ s[1] = " " THEN TrimLeft(Tail(s)) ELSE s

RECURSIVE TrimRight(_)
TrimRight(s) ==
  IF s # <<>> /\ s[Len(s)] = " " THEN TrimRight(SubSeq(s, 1, Len(s) - 1)) ELSE s

\* String.prototype.trim
Trim(s) == TrimRight(TrimLeft(s))

UpperLetters == <<"A", "B", "C", "D", "E", "F", "G", "H", "I", "J", "K", "L", "M",
                  "N", "O", "P", "Q", "R", "S", "T", "U", "V", "W", "X", "Y", "Z">>
LowerLetters == <<"a", "b", "c", "d", "e", "f", "g", "h", "i", "j", "k", "l", "m",
                  "n", "o", "p", "q", "r", "s", "t", "u", "v", "w", "x", "y", "z">>
LowerChar(c) ==
  IF \E i \in 1..26 : UpperLetters[i] = c
  THEN LowerLetters[CHOOSE i \in 1..26 : UpperLetters[i] = c]
  ELSE c

\* String.prototype.toLowerCase over the alphabet the model uses
ToLowerCase(s) == [i \in 1..Len(s) |-> LowerChar(s[i])]

\* Array.prototype.map / filter over a sequence
MapSeq(s, F(_)) == [i \in 1..Len(s) |-> F(s[i])]

\* Array.prototype.filter keeps the elements satisfying P, in order
FilterSeq(s, P(_)) == SelectSeq(s, P)

\* Array.prototype.slice(start, end) with integer arguments
Slice(s, start, end) ==
  LET n == Len(s)
      from == IF start < 0 THEN Max(n + start, 0) ELSE Min(start, n)
      to == IF end < 0 THEN Max(n + end, 0) ELSE Min(end, n)
  IN IF from >= to THEN <<>> ELSE SubSeq(s, from + 1, to)

\* Array.prototype.findIndex, 0-based, -1 when no element satisfies P
FindIndex(s, P(_)) ==
  IF \E i \in 1..Len(s) : P(s[i])
  THEN (CHOOSE i \in 1..Len(s) : P(s[i]) /\ \A j \in 1..(i - 1) : ~P(s[j])) - 1
  ELSE -1

\* Math.ceil(a / b) for a >= 0 and b >= 1
CeilDiv(a, b) == (a + b - 1) \div b

----------------------------------------------------------------------------
(* Collection Query Engine: pagination *)

IdName == <<"i", "d">>
TypeName == <<"t", "y", "p", "e">>
PageNumberKey == <<"p", "a", "g", "e", "[", "n", "u", "m", "b", "e", "r", "]">>
PageSizeKey == <<"p", "a", "g", "e", "[", "s", "i", "z", "e", "]">>
PageAfterKey == <<"p", "a", "g", "e", "[", "a", "f", "t", "e", "r", "]">>
PageBeforeKey == <<"p", "a", "g", "e", "[", "b", "e", "f", "o", "r", "e", "]">>
ResourceWord == <<"r", "e", "s", "o", "u", "r", "c", "e">>

\* a link is the list of query parameters it replaces in the current URL
createPageLink(pageNum) == <<<<PageNumberKey, NumToStr(pageNum)>>>>

SelfLink == <<>>

\* mutant of OffsetPagination: the page number is taken as 0-based
OffsetPaginationZeroBased(items, pagination) ==
  LET page == pagination.number.v
      size == pagination.size.v
      totalCount == Len(items)
      startIndex == page * size
      endIndex == (page + 1) * size
      lastPage == CeilDiv(totalCount, size)
      base == [self |-> SelfLink, first |-> createPageLink(1), last |-> createPageLink(lastPage)]
      withPrev == IF page > 1 THEN base @@ [prev |-> createPageLink(page - 1)] ELSE base
      withNext == IF page < lastPage THEN withPrev @@ [next |-> createPageLink(page + 1)] ELSE withPrev
  IN [data |-> Slice(items, startIndex, endIndex),
      meta |-> IF pagination.count # Bool(FALSE)
               THEN [current_page |-> page,
                     from |-> startIndex + 1,
                     last_page |-> lastPage,
                     per_page |-> size,
                     to |-> Min(endIndex, totalCount),
                     total |-> totalCount]
               ELSE <<>>,
      links |-> withNext]

\* offset branch of applyPagination: number and size are both defined
OffsetPagination(items, pagination) ==
  LET page == pagination.number.v
      size == pagination.size.v
      totalCount == Len(items)
      startIndex == (page - 1) * size
      endIndex == page * size
      lastPage == CeilDiv(totalCount, size)
      base == [self |-> SelfLink, first |-> createPageLink(1), last |-> createPageLink(lastPage)]
      withPrev == IF page > 1 THEN base @@ [prev |-> createPageLink(page - 1)] ELSE base
      withNext == IF page < lastPage THEN withPrev @@ [next |-> createPageLink(page + 1)] ELSE withPrev
  IN [data |-> Slice(items, startIndex, endIndex),
      meta |-> IF pagination.count # Bool(FALSE)
               THEN [current_page |-> page,
                     from |-> startIndex + 1,
                     last_page |-> lastPage,
                     per_page |-> size,
                     to |-> Min(endIndex, totalCount),
                     total |-> totalCount]
               ELSE <<>>,
      links |-> withNext]

\* mutant of CursorPagination: the page starts at the cursor item itself
CursorPaginationInclusive(items, pagination) ==
  LET size == IF Truthy(pagination.size) THEN pagination.size.v ELSE 10
      totalCount == Len(items)
      afterParts == Split(pagination.after.v, ":")
      afterId == IF Len(afterParts) >= 2 THEN Str(afterParts[2]) ELSE Undefined
      IsAfter(item) == Str(ToStr(Prop(item, IdName))) = afterId
      afterIndex == FindIndex(items, IsAfter)
      startIndex == IF Truthy(pagination.after) /\ afterIndex # -1 THEN afterIndex ELSE 0
      page == Slice(items, startIndex, startIndex + size)
      resourceType == IF Truthy(Prop(page[1], TypeName)) THEN ToStr(Prop(page[1], TypeName)) ELSE ResourceWord
      cursorOf(item) == resourceType \o <<":">> \o ToStr(Prop(item, IdName))
      base == [self |-> SelfLink]
      withNext == IF page # <<>> /\ startIndex + size < totalCount
                  THEN base @@ [next |-> <<<<PageAfterKey, cursorOf(page[Len(page)])>>,
                                          <<PageSizeKey, NumToStr(size)>>>>]
                  ELSE base
      withPrev == IF page # <<>> /\ startIndex > 0
                  THEN withNext @@ [prev |-> <<<<PageBeforeKey, cursorOf(items[Max(0, startIndex - size) + 1])>>,
                                              <<PageSizeKey, NumToStr(size)>>>>]
                  ELSE withNext
  IN [data |-> page,
      meta |-> IF pagination.count # Bool(FALSE)
               THEN [per_page |-> size, count |-> Len(page), total |-> totalCount]
               ELSE <<>>,
      links |-> withPrev]

\* cursor branch of applyPagination: after or before is set
CursorPagination(items, pagination) ==
  LET size == IF Truthy(pagination.size) THEN pagination.size.v ELSE 10
      totalCount == Len(items)
      afterParts == Split(pagination.after.v, ":")
      afterId == IF Len(afterParts) >= 2 THEN Str(afterParts[2]) ELSE Undefined
      IsAfter(item) == Str(ToStr(Prop(item, IdName))) = afterId
      afterIndex == FindIndex(items, IsAfter)
      startIndex == IF Truthy(pagination.after) /\ afterIndex # -1 THEN afterIndex + 1 ELSE 0
      page == Slice(items, startIndex, startIndex + size)
      resourceType == IF Truthy(Prop(page[1], TypeName)) THEN ToStr(Prop(page[1], TypeName)) ELSE ResourceWord
      cursorOf(item) == resourceType \o <<":">> \o ToStr(Prop(item, IdName))
      base == [self |-> SelfLink]
      withNext == IF page # <<>> /\ startIndex + size < totalCount
                  THEN base @@ [next |-> <<<<PageAfterKey, cursorOf(page[Len(page)])>>,
                                          <<PageSizeKey, NumToStr(size)>>>>]
                  ELSE base
      withPrev == IF page # <<>> /\ startIndex > 0
                  THEN withNext @@ [prev |-> <<<<PageBeforeKey, cursorOf(items[Max(0, startIndex - size) + 1])>>,
                                              <<PageSizeKey, NumToStr(size)>>>>]
                  ELSE withNext
  IN [data |-> page,
      meta |-> IF pagination.count # Bool(FALSE)
               THEN [per_page |-> size, count |-> Len(page), total |-> totalCount]
               ELSE <<>>,
      links |-> withPrev]

applyPagination(items, pagination) ==
  IF pagination.number # Undefined /\ pagination.size # Undefined
  THEN OffsetPagination(items, pagination)
  ELSE IF Truthy(pagination.after) \/ Truthy(pagination.before)
  THEN CursorPagination(items, pagination)
  ELSE [data |-> items, meta |-> <<>>, links |-> [self |-> SelfLink]]

----------------------------------------------------------------------------
(* Ordered maps: a JavaScript object as the sequence of its own entries,   *)
(* in insertion order                                                       *)

OKeys(m) == [i \in 1..Len(m) |-> m[i].k]

OHas(m, k) == \E i \in 1..Len(m) : m[i].k = k

OGet(m, k) == IF OHas(m, k) THEN m[CHOOSE i \in 1..Len(m) : m[i].k = k].v ELSE Undefined

\* m[k] = v: an existing key keeps its position, a new key is appended
OSet(m, k, v) ==
  IF OHas(m, k)
  THEN [i \in 1..Len(m) |-> IF m[i].k = k THEN [k |-> k, v |-> v] ELSE m[i]]
  ELSE Append(m, [k |-> k, v |-> v])

\* a thrown exception, as a value
Thrown(name) == [t |-> "throw", v |-> name]

\* an options object never has a property t
IsThrown(x) == "t" \in DOMAIN x /\ x.t = "throw"

\* a call that returned: the value it returned
Ok(v) == [t |-> "ok", v |-> v]

----------------------------------------------------------------------------
(* Query Plan Parser *)

IncludeKey == <<"i", "n", "c", "l", "u", "d", "e">>
SortKey == <<"s", "o", "r", "t">>
FieldsPrefix == <<"f", "i", "e", "l", "d", "s", "[">>
PagePrefix == <<"p", "a", "g", "e">>
FilterPrefix == <<"f", "i", "l", "t", "e", "r">>
NumberWord == <<"n", "u", "m", "b", "e", "r">>
SizeWord == <<"s", "i", "z", "e">>
AfterWord == <<"a", "f", "t", "e", "r">>
BeforeWord == <<"b", "e", "f", "o", "r", "e">>
CountWord == <<"c", "o", "u", "n", "t">>
TrueWord == <<"t", "r", "u", "e">>

NaN == [t |-> "nan", v |-> 0]

DigitValue(c) == (CHOOSE i \in 1..10 : Digits[i] = c) - 1

IsDigit(c) == \E i \in 1..10 : Digits[i] = c

RECURSIVE DigitsPrefixValue(_, _)
DigitsPrefixValue(s, acc) ==
  IF s = <<>> \/ ~IsDigit(s[1]) THEN acc
  ELSE DigitsPrefixValue(Tail(s), acc * 10 + DigitValue(s[1]))

\* parseInt(s, 10): leading blanks, an optional sign, then the longest run
\* of digits; NaN when there is no digit
ParseInt(s) ==
  LET t == TrimLeft(s)
      neg == t # <<>> /\ t[1] = "-"
      u == IF t # <<>> /\ t[1] \in {"-", "+"} THEN Tail(t) ELSE t
  IN IF u = <<>> \/ ~IsDigit(u[1]) THEN NaN
     ELSE Num(IF neg THEN 0 - DigitsPrefixValue(u, 0) ELSE DigitsPrefixValue(u, 0))

\* req.query[key]
QueryGet(query, key) == OGet(query, key)

\* second group of the nested-key pattern: rest3 must be <nestedKey>] and
\* nothing more
matchNestedKey(paramName, rest3) ==
  LET j == IndexOf(rest3, "]") IN
  IF j > 1 /\ j = Len(rest3) THEN <<paramName, SubSeq(rest3, 1, j - 1)>> ELSE <<>>

\* first group of the nested-key pattern: rest must be <paramName>][...
matchParamName(rest) ==
  LET i == IndexOf(rest, "]") IN
  IF i > 1 /\ Len(rest) > i /\ rest[i + 1] = "["
  THEN matchNestedKey(SubSeq(rest, 1, i - 1), SubSeq(rest, i + 2, Len(rest)))
  ELSE <<>>

\* the regular expression ^prefix\[([^\]]+)\]\[([^\]]+)\]$ applied to key:
\* <<paramName, nestedKey>> on a match, <<>> otherwise
nestedMatch(key, prefix) ==
  IF StartsWith(key, prefix \o <<"[">>)
  THEN matchParamName(SubSeq(key, Len(prefix) + 2, Len(key)))
  ELSE <<>>

\* result[paramName] = query[key] for a key of the form prefix[...]
assignSimple(acc, key, value, prefix) ==
  IF StartsWith(key, prefix \o <<"[">>) /\ EndsWith(key, <<"]">>)
  THEN OSet(acc, Slice(key, Len(prefix) + 1, -1), value)
  ELSE acc

\* result[paramName][nestedKey] = value; assigning a property on a non-empty
\* string raises a TypeError in strict mode
assignInto(acc, paramName, nestedKey, value, target) ==
  IF target.t = "object"
  THEN [threw |-> FALSE, params |-> OSet(acc, paramName, Obj(OSet(target.v, nestedKey, value)))]
  ELSE [threw |-> TRUE, params |-> acc]

\* if (!result[paramName]) result[paramName] = {}
ensureObject(acc, paramName, slot) ==
  IF Truthy(slot) THEN acc ELSE OSet(acc, paramName, Obj(<<>>))

assignNestedIn(acc, paramName, nestedKey, value) ==
  assignInto(acc, paramName, nestedKey, value, OGet(acc, paramName))

assignNested(acc, m, value) ==
  IF m = <<>> THEN [threw |-> FALSE, params |-> acc]
  ELSE assignNestedIn(ensureObject(acc, m[1], OGet(acc, m[1])), m[1], m[2], value)

\* one iteration of the forEach in extractObjectParams
extractOneParam(acc, key, value, prefix) ==
  assignNested(assignSimple(acc, key, value, prefix), nestedMatch(key, prefix), value)

RECURSIVE extractFrom(_, _, _)
extractFrom(query, prefix, acc) ==
  IF acc.threw \/ query = <<>> THEN acc
  ELSE extractFrom(Tail(query), prefix,
                   extractOneParam(acc.params, Head(query).k, Head(query).v, prefix))

\* extractObjectParams(query, prefix): the ordered map of the bracketed
\* parameters under prefix; threw is set when a nested key is assigned on a
\* non-empty string, which raises a TypeError in strict mode
extractObjectParams(query, prefix) == extractFrom(query, prefix, [threw |-> FALSE, params |-> <<>>])

\* mutant of AllowedPath: a deeper extension of an allowed path is not kept
AllowedPathNoExtension(include, allowedIncludes) ==
  \E i \in 1..Len(allowedIncludes) :
    LET allowed == allowedIncludes[i] IN
      \/ allowed = include
      \/ StartsWith(allowed, include \o <<".">>)

AllowedPath(include, allowedIncludes) ==
  LET basePath == Split(include, ".")[1] IN
  \E i \in 1..Len(allowedIncludes) :
    LET allowed == allowedIncludes[i] IN
      \/ allowed = include
      \/ StartsWith(allowed, include \o <<".">>)
      \/ StartsWith(include, allowed \o <<".">>)
      \/ allowed = basePath

filterAllowedIncludes(includes, allowedIncludes) ==
  LET Keep(include) == AllowedPath(include, allowedIncludes) IN FilterSeq(includes, Keep)

\* options with one more field set (left operand wins)
With(o, field, value) == (field :> value) @@ o

\* String.prototype.split(',') followed by map(trim)
splitList(raw) == MapSeq(Split(raw, ","), Trim)

setInclude(opts, includes, allowedIncludes) ==
  IF Truthy(allowedIncludes)
  THEN With(opts, "include", filterAllowedIncludes(includes, allowedIncludes.v))
  ELSE With(opts, "include", includes)

\* includeStr.split is not a function when the parameter is multi-valued (an array) or nested
includeFrom(opts, raw, allowedIncludes) ==
  IF ~Truthy(raw) THEN opts
  ELSE IF raw.t # "str" THEN Thrown("TypeError")
  ELSE setInclude(opts, splitList(raw.v), allowedIncludes)

processIncludeOptions(opts, req) ==
  includeFrom(opts, QueryGet(req.query, IncludeKey), req.allowedIncludes)

\* one iteration of the forEach in processFieldOptions; fieldsStr.split is not a function
\* when the parameter is multi-valued
fieldsEntry(acc, key, value) ==
  IF StartsWith(key, FieldsPrefix) /\ EndsWith(key, <<"]">>)
  THEN (IF value.t = "str"
        THEN [threw |-> FALSE, params |-> OSet(acc.params, Slice(key, 7, -1), Arr(splitList(value.v)))]
        ELSE [threw |-> TRUE, params |-> acc.params])
  ELSE acc

RECURSIVE fieldsFrom(_, _)
fieldsFrom(query, acc) ==
  IF acc.threw \/ query = <<>> THEN acc
  ELSE fieldsFrom(Tail(query), fieldsEntry(acc, Head(query).k, Head(query).v))

fieldsInto(opts, collected) ==
  IF collected.threw THEN Thrown("TypeError") ELSE With(opts, "fields", collected.params)

processFieldOptions(opts, req) ==
  IF IsThrown(opts) THEN opts
  ELSE fieldsInto(opts, fieldsFrom(req.query,
                                   [threw |-> FALSE,
                                    params |-> IF "fields" \in DOMAIN opts THEN opts.fields ELSE <<>>]))

NoPagination ==
  [number |-> Undefined, size |-> Undefined, after |-> Undefined, before |-> Undefined, count |-> Undefined]

\* pageParams.x ? parseInt(pageParams.x, 10) : options.pagination?.x
pageInt(param, old) == IF Truthy(param) THEN ParseInt(ToStr(param)) ELSE old

\* pageParams.x || options.pagination?.x
pageCursor(param, old) == IF Truthy(param) THEN param ELSE old

\* pageParams.count ? pageParams.count === 'true' : options.pagination?.count ?? true
pageCount(param, old) ==
  IF Truthy(param) THEN Bool(param = Str(TrueWord))
  ELSE IF old \in {Undefined, Null} THEN Bool(TRUE) ELSE old

mergePagination(pageParams, old) ==
  [number |-> pageInt(OGet(pageParams, NumberWord), old.number),
   size |-> pageInt(OGet(pageParams, SizeWord), old.size),
   after |-> pageCursor(OGet(pageParams, AfterWord), old.after),
   before |-> pageCursor(OGet(pageParams, BeforeWord), old.before),
   count |-> pageCount(OGet(pageParams, CountWord), old.count)]

paginationFrom(opts, extracted) ==
  IF IsThrown(opts) THEN opts
  ELSE IF extracted.threw THEN Thrown("TypeError")
  ELSE IF extracted.params = <<>> THEN opts
  ELSE With(opts, "pagination",
            mergePagination(extracted.params,
                            IF "pagination" \in DOMAIN opts THEN opts.pagination ELSE NoPagination))

processPaginationOptions(opts, req) ==
  paginationFrom(opts, extractObjectParams(req.query, PagePrefix))

sortField(field) ==
  IF StartsWith(field, <<"-">>)
  THEN [field |-> Tail(field), direction |-> "desc"]
  ELSE [field |-> field, direction |-> "asc"]

sortEntry(s) == sortField(Trim(s))

\* sortStr.split is not a function when the parameter is multi-valued
sortFrom(opts, raw) ==
  IF ~Truthy(raw) THEN opts
  ELSE IF raw.t # "str" THEN Thrown("TypeError")
  ELSE With(opts, "sort", MapSeq(Split(raw.v, ","), sortEntry))

processSortOptions(opts, req) == sortFrom(opts, QueryGet(req.query, SortKey))

\* mutant of filterAllowedFilters: an empty allow-list is taken as no allow-list
filterAllowedFiltersEmptyAllowsAll(filters, allowedFilters) ==
  LET Allowed(e) == \E i \in 1..Len(allowedFilters.v) : allowedFilters.v[i] = e.k IN
  IF ~Truthy(allowedFilters) \/ Len(allowedFilters.v) = 0 THEN filters
  ELSE FilterSeq(filters, Allowed)

filterAllowedFilters(filters, allowedFilters) ==
  LET Allowed(e) == \E i \in 1..Len(allowedFilters.v) : allowedFilters.v[i] = e.k IN
  IF ~Truthy(allowedFilters) THEN filters
  ELSE IF Len(allowedFilters.v) = 0 THEN <<>>
  ELSE FilterSeq(filters, Allowed)

\* options.filter = filters, unless the allow-list left nothing
setFilter(opts, filters) == IF filters = <<>> THEN opts ELSE With(opts, "filter", filters)

filterFrom(opts, extracted, allowedFilters) ==
  IF extracted.threw THEN Thrown("TypeError")
  ELSE IF extracted.params = <<>> THEN opts
  ELSE IF Truthy(allowedFilters)
  THEN setFilter(opts, filterAllowedFilters(extracted.params, allowedFilters))
  ELSE With(opts, "filter", extracted.params)

processFilterOptions(opts, req) ==
  filterFrom(opts, extractObjectParams(req.query, FilterPrefix), req.allowedFilters)

\* a step of getAutoOptions is skipped once an earlier step has thrown
sortStep(opts, req) == IF IsThrown(opts) THEN opts ELSE processSortOptions(opts, req)

filterStep(opts, req) == IF IsThrown(opts) THEN opts ELSE processFilterOptions(opts, req)

\* getAutoOptions with a request in the context: the five process* steps in
\* order
getAutoOptions(existingOptions, req) ==
  filterStep(
    sortStep(
      processPaginationOptions(
        processFieldOptions(
          processIncludeOptions(existingOptions, req), req), req), req), req)

\* the object the caller passed, after getAutoOptions returned or threw: { ...existingOptions }
\* copies the top level only, so options.fields is the caller's own fields object and
\* processFieldOptions writes its entries into it
existingOptionsAfter(existingOptions, req) ==
  IF "fields" \in DOMAIN existingOptions /\ ~IsThrown(processIncludeOptions(existingOptions, req))
  THEN With(existingOptions, "fields",
            fieldsFrom(req.query, [threw |-> FALSE, params |-> existingOptions.fields]).params)
  ELSE existingOptions

----------------------------------------------------------------------------
(* Values shared by the specifications *)

NoRequest == [query |-> <<>>, allowedFilters |-> Undefined, allowedIncludes |-> Undefined]
NoData == <<>>
NoOptions == <<>>
NoResult == <<>>
NoSerializer == "none"
NoRegistry == <<>>

\* an entity that only carries an identifier
Entity(i) == Obj(IdName :> Num(i))

\* a stored collection of n entities with pairwise distinct ids, in id order
Collection(n) == [i \in 1..n |-> Entity(i)]

----------------------------------------------------------------------------
(* Specification SpecPagination: applyPagination on a collection *)

MaxTotal == 6
MaxPage == 4
MaxSize == 3
ExampleTotal == 48
ExampleSize == 10

PaginationTotals == (0..MaxTotal) \cup {ExampleTotal}
PaginationSizes == (1..MaxSize) \cup {ExampleSize}
CountFlags == {Undefined, Bool(TRUE), Bool(FALSE)}

OffsetRequests ==
  {[number |-> Num(p), size |-> Num(s), after |-> Undefined, before |-> Undefined, count |-> c] :
     p \in 1..MaxPage, s \in PaginationSizes, c \in CountFlags}

InitPagination ==
  /\ pc = "start"
  /\ registry = NoRegistry
  /\ request = NoRequest
  /\ serializer = NoSerializer
  /\ \E n \in PaginationTotals : data = Collection(n)
  /\ \E pg \in OffsetRequests : options = [pagination |-> pg]
  /\ result = NoResult

Paginate ==
  /\ pc = "start"
  /\ result' = applyPagination(data, options.pagination)
  /\ pc' = "paginated"
  /\ UNCHANGED <<request, registry, serializer, data, options>>

NextPagination == Paginate

SpecPagination == InitPagination /\ [][NextPagination]_vars

\* C1: offset pagination with page p >= 1 and size s >= 1 returns exactly the
\* items at 0-based indices [(p-1)*s, p*s) and, when totals are requested,
\* meta current_page = p, from = (p-1)*s + 1, to = min(p*s, total),
\* last_page = ceil(total/s), per_page = s, total = collection length;
\* links.prev is present iff p > 1 and links.next iff p < last_page.
C1_OffsetPage ==
  (pc = "paginated" /\ options.pagination.number # Undefined /\ options.pagination.size # Undefined) =>
    LET p == options.pagination.number.v
        s == options.pagination.size.v
        total == Len(data)
        wanted == {i \in 0..(total - 1) : (p - 1) * s <= i /\ i < p * s}
        lastPage == CHOOSE k \in 0..total : k * s >= total /\ (k = 0 \/ (k - 1) * s < total)
    IN /\ Len(result.data) = Cardinality(wanted)
       /\ \A k \in 1..Len(result.data) : result.data[k] = data[(p - 1) * s + k]
       /\ options.pagination.count # Bool(FALSE) =>
            /\ result.meta.current_page = p
            /\ result.meta.from = (p - 1) * s + 1
            /\ result.meta.to = (IF p * s < total THEN p * s ELSE total)
            /\ result.meta.last_page = lastPage
            /\ result.meta.per_page = s
            /\ result.meta.total = total
       /\ ("prev" \in DOMAIN result.links) <=> (p > 1)
       /\ ("next" \in DOMAIN result.links) <=> (p < lastPage)

\* the README example: 48 items, page 2 of size 10
C1_Witness ==
  /\ pc = "paginated"
  /\ Len(data) = ExampleTotal
  /\ options.pagination.number = Num(2)
  /\ options.pagination.size = Num(ExampleSize)
  /\ options.pagination.count = Undefined
  /\ Len(result.data) = 10
  /\ result.data[1] = Entity(11)
  /\ result.meta.from = 11
  /\ result.meta.to = 20
  /\ result.meta.last_page = 5
  /\ {"prev", "next"} \subseteq DOMAIN result.links

----------------------------------------------------------------------------
(* Specification SpecParse: getAutoOptions on a request carrying include    *)
(* or filter parameters and the allow-lists set by the interceptors         *)

AuthorName == <<"a", "u", "t", "h", "o", "r">>
AuthName == <<"a", "u", "t", "h">>
ProfileName == <<"p", "r", "o", "f", "i", "l", "e">>
CommentsName == <<"c", "o", "m", "m", "e", "n", "t", "s">>
StatusName == <<"s", "t", "a", "t", "u", "s">>
PriceName == <<"p", "r", "i", "c", "e">>
TitleName == <<"t", "i", "t", "l", "e">>
GteWord == <<"g", "t", "e">>
LteWord == <<"l", "t", "e">>

Dot(a, b) == a \o <<".">> \o b

RECURSIVE Join(_, _)
Join(parts, sep) ==
  IF parts = <<>> THEN <<>>
  ELSE IF Len(parts) = 1 THEN parts[1]
  ELSE parts[1] \o <<sep>> \o Join(Tail(parts), sep)

\* the sequences over S of length lo..hi
SeqsOf(S, lo, hi) == UNION {[1..n -> S] : n \in lo..hi}

MaxIncludePaths == 2
MaxAllowed == 2
MaxFilterParams == 2

RequestedPaths ==
  {AuthorName, AuthName, CommentsName, Dot(AuthorName, ProfileName), Dot(CommentsName, AuthorName)}

AllowedPaths == {AuthorName, CommentsName, Dot(AuthorName, ProfileName)}

AllowLists(S) == {Undefined} \cup {Arr(l) : l \in SeqsOf(S, 0, MaxAllowed)}

\* a requested filter: filter[field]=value (op is <<>>) or filter[field][op]=value
FilterIntents ==
  {[field |-> StatusName, op |-> <<>>, value |-> <<"o", "n">>],
   [field |-> TitleName, op |-> <<>>, value |-> <<"a">>],
   [field |-> PriceName, op |-> GteWord, value |-> <<"1">>],
   [field |-> PriceName, op |-> LteWord, value |-> <<"5">>]}

FilterIntentLists ==
  {l \in SeqsOf(FilterIntents, 1, MaxFilterParams) :
     \A i, j \in 1..Len(l) : i # j => l[i] # l[j]}

FilterFields == {StatusName, TitleName, PriceName}

FilterParamKey(r) ==
  FilterPrefix \o <<"[">> \o r.field \o <<"]">> \o
    (IF r.op = <<>> THEN <<>> ELSE <<"[">> \o r.op \o <<"]">>)

FilterQuery(l) == [i \in 1..Len(l) |-> [k |-> FilterParamKey(l[i]), v |-> Str(l[i].value)]]

IncludeQuery(paths) == <<[k |-> IncludeKey, v |-> Str(Join(paths, ","))]>>

IncludeRequests ==
  {[query |-> IncludeQuery(ps), allowedFilters |-> Undefined, allowedIncludes |-> al] :
     ps \in SeqsOf(RequestedPaths, 1, MaxIncludePaths), al \in AllowLists(AllowedPaths)}

FilterRequests ==
  {[query |-> FilterQuery(fs), allowedFilters |-> al, allowedIncludes |-> Undefined] :
     fs \in FilterIntentLists, al \in AllowLists(FilterFields)}

InitParse ==
  /\ pc = "start"
  /\ registry = NoRegistry
  /\ request \in IncludeRequests \cup FilterRequests
  /\ serializer = NoSerializer
  /\ data = NoData
  /\ options = NoOptions
  /\ result = NoResult

\* getAutoOptions() as the repository proxy and serialize call it
ParseRequest ==
  /\ pc = "start"
  /\ options' = getAutoOptions(NoOptions, request)
  /\ pc' = "parsed"
  /\ UNCHANGED <<request, registry, serializer, data, result>>

NextParse == ParseRequest

SpecParse == InitParse /\ [][NextParse]_vars

\* the four retention rules of the include allow-list, stated on the path
\* texts: r is kept for a when a = r, a = r.<more>, r = a.<more>, or a is
\* the first dot-separated segment of r
IsExtension(long, short) ==
  \E n \in 1..(Len(long) + 1) : long = short \o <<".">> \o SubSeq(long, n, Len(long))

IsFirstSegment(a, r) ==
  /\ \A i \in 1..Len(a) : a[i] # "."
  /\ \E n \in 0..Len(r) :
       /\ SubSeq(r, 1, n) = a
       /\ (n = Len(r) \/ r[n + 1] = ".")

RetainedBy(r, allowList) ==
  \E i \in 1..Len(allowList) :
    LET a == allowList[i] IN
      a = r \/ IsExtension(a, r) \/ IsExtension(r, a) \/ IsFirstSegment(a, r)

\* C4: filterAllowedIncludes keeps a requested path r, in the original
\* relative order, iff some allowed path a has a = r, a starts with r + ".",
\* r starts with a + ".", or a equals the first segment of r; an empty
\* allow-list drops every path and no allow-list keeps every path.
C4_IncludeAllowList ==
  pc = "parsed" =>
    \A ps \in SeqsOf(RequestedPaths, 1, MaxIncludePaths) :
      request.query = IncludeQuery(ps) =>
        LET Kept(r) == RetainedBy(r, request.allowedIncludes.v) IN
        /\ "include" \in DOMAIN options
        /\ request.allowedIncludes = Undefined => options.include = ps
        /\ request.allowedIncludes # Undefined => options.include = SelectSeq(ps, Kept)
        /\ request.allowedIncludes = Arr(<<>>) => options.include = <<>>

\* allowed ["author"], requested "author.profile,comments": the deeper path is
\* kept because it extends an allowed path, the other path is dropped
C4_Witness ==
  /\ pc = "parsed"
  /\ request.query = IncludeQuery(<<Dot(AuthorName, ProfileName), CommentsName>>)
  /\ request.allowedIncludes = Arr(<<AuthorName>>)
  /\ options.include = <<Dot(AuthorName, ProfileName)>>

\* what a list of requested filters asks for on one field: the value of
\* filter[field]=v, or the operator map of the filter[field][op]=v entries
RequestedOps(fs, field) ==
  LET OnField(r) == r.field = field
      AsEntry(r) == [k |-> r.op, v |-> Str(r.value)]
  IN MapSeq(SelectSeq(fs, OnField), AsEntry)

RequestedValue(fs, field) ==
  IF \E i \in 1..Len(fs) : fs[i].field = field /\ fs[i].op = <<>>
  THEN RequestedOps(fs, field)[1].v
  ELSE Obj(RequestedOps(fs, field))

RequestedFields(fs) == {fs[i].field : i \in 1..Len(fs)}

ListedFields(allowList) == {allowList.v[i] : i \in 1..Len(allowList.v)}

PlanFilter == IF "filter" \in DOMAIN options THEN options.filter ELSE <<>>

\* C5: with an allow-list of filter fields the filter map holds exactly the
\* requested entries whose field is listed (the others are dropped, nothing
\* is raised); with an empty allow-list the plan has no filter; without an
\* allow-list every requested entry is kept.
C5_FilterAllowList ==
  pc = "parsed" =>
    \A fs \in FilterIntentLists :
      request.query = FilterQuery(fs) =>
        /\ ~IsThrown(options)
        /\ request.allowedFilters # Undefined =>
             /\ {PlanFilter[i].k : i \in 1..Len(PlanFilter)}
                  = RequestedFields(fs) \cap ListedFields(request.allowedFilters)
             /\ \A i, j \in 1..Len(PlanFilter) : PlanFilter[i].k = PlanFilter[j].k => i = j
             /\ \A i \in 1..Len(PlanFilter) : PlanFilter[i].v = RequestedValue(fs, PlanFilter[i].k)
        /\ request.allowedFilters = Arr(<<>>) => "filter" \notin DOMAIN options
        /\ request.allowedFilters = Undefined =>
             \A f \in RequestedFields(fs) : OGet(PlanFilter, f) = RequestedValue(fs, f)

\* filter[status]=on&filter[price][gte]=1 with allow-list ["status"]: only the
\* status entry is left
C5_Witness ==
  /\ pc = "parsed"
  /\ request.query = FilterQuery(<<[field |-> StatusName, op |-> <<>>, value |-> <<"o", "n">>],
                                   [field |-> PriceName, op |-> GteWord, value |-> <<"1">>]>>)
  /\ request.allowedFilters = Arr(<<StatusName>>)
  /\ options.filter = <<[k |-> StatusName, v |-> Str(<<"o", "n">>)]>>

\* ---------------------------------------------------------------------------
\* Serializer metadata: what the decorators record on a serializer class
\* ---------------------------------------------------------------------------

ArticleType == <<"a", "r", "t", "i", "c", "l", "e">>
UserType == <<"u", "s", "e", "r">>
ProfileType == <<"p", "r", "o", "f", "i", "l", "e">>
CommentType == <<"c", "o", "m", "m", "e", "n", "t">>
TagType == <<"t", "a", "g">>
BodyName == <<"b", "o", "d", "y">>
ContentName == <<"c", "o", "n", "t", "e", "n", "t">>
SecretName == <<"s", "e", "c", "r", "e", "t">>
PublicName == <<"p", "u", "b", "l", "i", "c">>
NameName == <<"n", "a", "m", "e">>
BioName == <<"b", "i", "o">>
TextName == <<"t", "e", "x", "t">>
SlugName == <<"s", "l", "u", "g">>
LabelName == <<"l", "a", "b", "e", "l">>
BogusName == <<"b", "o", "g", "u", "s">>
ConstructorName == <<"c", "o", "n", "s", "t", "r", "u", "c", "t", "o", "r">>
ObjectWord == <<"O", "b", "j", "e", "c", "t">>
NoteType == <<"n", "o", "t", "e">>
OwnerName == <<"o", "w", "n", "e", "r">>
SubjectName == <<"s", "u", "b", "j", "e", "c", "t">>
TargetsName == <<"t", "a", "r", "g", "e", "t", "s">>
UserClass == <<"U", "s", "e", "r">>
PersonType == <<"p", "e", "r", "s", "o", "n">>
FriendName == <<"f", "r", "i", "e", "n", "d">>
FriendsName == <<"f", "r", "i", "e", "n", "d", "s">>

\* @Attribute({name, condition}) on property propertyKey; condition "none" is an absent condition
Attribute(propertyKey, name, condition) ==
  [property |-> propertyKey, name |-> name, condition |-> condition]

\* @Relationship(relationshipType, options) on property propertyKey
Relationship(relationshipType, propertyKey, resourceType, relatedSerializer, condition) ==
  [property |-> propertyKey, name |-> propertyKey, type |-> relationshipType,
   resourceType |-> resourceType, serializer |-> relatedSerializer, condition |-> condition,
   idMethodName |-> Undefined, polymorphic |-> Undefined]

\* @Relationship(relationshipType, {polymorphic}) without a declared type: polymorphic is
\* true or a map from class names to resource types
PolymorphicRelationship(relationshipType, propertyKey, polymorphic) ==
  [property |-> propertyKey, name |-> propertyKey, type |-> relationshipType,
   resourceType |-> Undefined, serializer |-> "none", condition |-> "none",
   idMethodName |-> Undefined, polymorphic |-> polymorphic]

\* @JSONAPISerializer({type, id}): id is a property name or a function of the record
JSONAPISerializer(type, id, attributes, relationships) ==
  [hasOptions |-> TRUE, type |-> type, id |-> id, attributes |-> attributes, relationships |-> relationships]

IdProperty(name) == [fn |-> FALSE, name |-> name]
IdFunction(name) == [fn |-> TRUE, name |-> name]

\* the serializer classes of the modelled application; PlainClass carries no decorator at all
SerializerNames == {"ArticleSerializer", "UserSerializer", "ProfileSerializer", "CommentSerializer",
                    "TagSerializer", "NoteSerializer", "PersonSerializer", "PlainClass"}

Metadata(serializerClass) ==
  CASE serializerClass = "ArticleSerializer" ->
         JSONAPISerializer(ArticleType, IdProperty(IdName),
           <<Attribute(TitleName, TitleName, "none"),
             Attribute(BodyName, ContentName, "none"),
             Attribute(SecretName, SecretName, "isPublic")>>,
           <<Relationship("belongsTo", AuthorName, Str(UserType), "UserSerializer", "none"),
             Relationship("hasMany", CommentsName, Str(CommentType), "CommentSerializer", "isPublic")>>)
    [] serializerClass = "UserSerializer" ->
         JSONAPISerializer(UserType, IdProperty(IdName),
           <<Attribute(NameName, NameName, "none")>>,
           <<Relationship("hasOne", ProfileName, Str(ProfileType), "ProfileSerializer", "none")>>)
    [] serializerClass = "ProfileSerializer" ->
         JSONAPISerializer(ProfileType, IdProperty(IdName),
           <<Attribute(BioName, BioName, "none")>>, <<>>)
    [] serializerClass = "CommentSerializer" ->
         JSONAPISerializer(CommentType, IdProperty(IdName),
           <<Attribute(TextName, TextName, "none")>>,
           <<Relationship("belongsTo", AuthorName, Str(UserType), "none", "none")>>)
    [] serializerClass = "TagSerializer" ->
         JSONAPISerializer(TagType, IdFunction(SlugName),
           <<Attribute(LabelName, LabelName, "none")>>, <<>>)
    [] serializerClass = "NoteSerializer" ->
         JSONAPISerializer(NoteType, IdProperty(IdName),
           <<Attribute(TextName, TextName, "none")>>,
           <<PolymorphicRelationship("belongsTo", OwnerName, Undefined),
             PolymorphicRelationship("belongsTo", SubjectName,
                                     Obj(<<[k |-> UserClass, v |-> Str(UserType)]>>)),
             PolymorphicRelationship("hasMany", TargetsName, Bool(TRUE))>>)
    [] serializerClass = "PersonSerializer" ->
         JSONAPISerializer(PersonType, IdProperty(IdName),
           <<Attribute(NameName, NameName, "none")>>,
           <<Relationship("hasOne", FriendName, Str(PersonType), "PersonSerializer", "none"),
             Relationship("hasMany", FriendsName, Str(PersonType), "PersonSerializer", "none")>>)
    [] OTHER ->
         [hasOptions |-> FALSE, type |-> <<>>, id |-> IdProperty(IdName),
          attributes |-> <<>>, relationships |-> <<>>]

\* a condition callback (record, params) => boolean; the application's only one reads record.public
Condition(condition, item, params) ==
  CASE condition = "isPublic" -> Truthy(Prop(item, PublicName))
    [] OTHER -> TRUE

\* an id callback (record, params) => string; the application's only one returns record.slug
IdCallback(name, item, params) == Prop(item, name)

\* options.params, options.fields, options.include: absent members read as undefined / no list
ParamsOf(opts) == IF "params" \in DOMAIN opts THEN opts.params ELSE Undefined
FieldsFor(opts, type) == IF "fields" \in DOMAIN opts THEN OGet(opts.fields, type) ELSE Undefined
IncludeOf(opts) == IF "include" \in DOMAIN opts THEN opts.include ELSE <<>>

\* ---------------------------------------------------------------------------
\* AttributeProcessor and RelationshipProcessor
\* ---------------------------------------------------------------------------

\* allowedFields.includes(name) for an array of field names
FieldListed(allowedFields, name) == \E i \in 1..Len(allowedFields.v) : allowedFields.v[i] = name

\* mutant: a sparse fieldset entry is matched against the property name, not the exposed name
attributeSkippedByProperty(attr, item, allowedFields, params) ==
  \/ Truthy(allowedFields) /\ ~FieldListed(allowedFields, attr.property)
  \/ attr.condition # "none" /\ ~Condition(attr.condition, item, params)

\* the two skips of the attribute loop: not in the sparse fieldset, or the condition fails
attributeSkipped(attr, item, allowedFields, params) ==
  \/ Truthy(allowedFields) /\ ~FieldListed(allowedFields, attr.name)
  \/ attr.condition # "none" /\ ~Condition(attr.condition, item, params)

attributeStep(acc, attr, item, allowedFields, params) ==
  IF attributeSkipped(attr, item, allowedFields, params) THEN acc
  ELSE OSet(acc, attr.name, Prop(item, attr.property))

RECURSIVE attributesFrom(_, _, _, _, _)
attributesFrom(attributes, acc, item, allowedFields, params) ==
  IF attributes = <<>> THEN acc
  ELSE attributesFrom(Tail(attributes), attributeStep(acc, Head(attributes), item, allowedFields, params),
                      item, allowedFields, params)

getAttributes(serializerClass, item, opts) ==
  IF ~Metadata(serializerClass).hasOptions THEN Thrown("NotFoundException")
  ELSE Ok(attributesFrom(Metadata(serializerClass).attributes, <<>>, item,
                         FieldsFor(opts, Metadata(serializerClass).type), ParamsOf(opts)))

\* resource identifier object {id, type}
Linkage(id, type) == [t |-> "linkage", v |-> [id |-> id, type |-> type]]

\* item.constructor.name
ClassNameOf(item) ==
  CASE item.t = "object" ->
         IF ConstructorName \in DOMAIN item.v THEN item.v[ConstructorName] ELSE Str(ObjectWord)
    [] item.t = "str" -> Str(<<"S", "t", "r", "i", "n", "g">>)
    [] item.t = "array" -> Str(<<"A", "r", "r", "a", "y">>)
    [] item.t = "bool" -> Str(<<"B", "o", "o", "l", "e", "a", "n">>)
    [] OTHER -> Str(<<"N", "u", "m", "b", "e", "r">>)

\* first entry of the polymorphic map whose class name is the item's, else the declared type
polymorphicType(rel, item) ==
  IF rel.polymorphic.t = "object"
  THEN IF OHas(rel.polymorphic.v, ToStr(ClassNameOf(item)))
       THEN OGet(rel.polymorphic.v, ToStr(ClassNameOf(item)))
       ELSE rel.resourceType
  ELSE IF Truthy(ClassNameOf(item)) THEN Str(ToLowerCase(ClassNameOf(item).v)) ELSE Undefined

relationshipType(rel, item) ==
  IF Truthy(rel.polymorphic) THEN polymorphicType(rel, item) ELSE rel.resourceType

\* mutant: String(item.id) without the test for undefined and null
relationshipIdUnchecked(rel, item) ==
  IF Truthy(rel.idMethodName) /\ Truthy(Prop(item, rel.idMethodName.v))
  THEN Str(ToStr(Prop(item, rel.idMethodName.v)))
  ELSE Str(ToStr(Prop(item, IdName)))

relationshipId(rel, item) ==
  IF Truthy(rel.idMethodName) /\ Truthy(Prop(item, rel.idMethodName.v))
  THEN Str(ToStr(Prop(item, rel.idMethodName.v)))
  ELSE IF Prop(item, IdName) \notin {Undefined, Null}
       THEN Str(ToStr(Prop(item, IdName)))
       ELSE Thrown("Error")

linkageOf(id, type) ==
  IF ~Truthy(type) THEN Thrown("Error")
  ELSE IF IsThrown(id) THEN id
  ELSE Linkage(id.v, type.v)

buildRelationshipData(rel, item) ==
  IF ~Truthy(item) THEN Null
  ELSE linkageOf(relationshipId(rel, item), relationshipType(rel, item))

\* relatedData.map(buildRelationshipData): the first throw ends the map
manyLinkage(rel, relatedData) ==
  IF \E i \in 1..Len(relatedData) : IsThrown(buildRelationshipData(rel, relatedData[i]))
  THEN Thrown("Error")
  ELSE Arr([i \in 1..Len(relatedData) |-> buildRelationshipData(rel, relatedData[i])])

relationshipOf(rel, relatedData) ==
  IF relatedData \in {Undefined, Null}
  THEN IF rel.type = "hasMany" THEN Arr(<<>>) ELSE Null
  ELSE IF rel.type = "hasMany"
       THEN IF relatedData.t # "array" THEN Arr(<<>>) ELSE manyLinkage(rel, relatedData.v)
       ELSE buildRelationshipData(rel, relatedData)

serializeRelationship(rel, item) == relationshipOf(rel, Prop(item, rel.property))

relationshipSkipped(rel, item, params) ==
  rel.condition # "none" /\ ~Condition(rel.condition, item, params)

relationshipEntry(acc, rel, relData) ==
  IF IsThrown(relData) THEN Thrown("Error") ELSE Ok(OSet(acc.v, rel.name, [data |-> relData]))

relationshipStep(acc, rel, item, params) ==
  IF relationshipSkipped(rel, item, params) THEN acc
  ELSE relationshipEntry(acc, rel, serializeRelationship(rel, item))

\* the forEach of getRelationships; a throw inside it leaves the loop at once
RECURSIVE relationshipsFrom(_, _, _, _)
relationshipsFrom(relationships, acc, item, params) ==
  IF relationships = <<>> \/ IsThrown(acc) THEN acc
  ELSE relationshipsFrom(Tail(relationships), relationshipStep(acc, Head(relationships), item, params),
                         item, params)

\* mutant: the relationships are restricted by the sparse fieldset as attributes are
getRelationshipsSparse(serializerClass, item, opts) ==
  IF Truthy(FieldsFor(opts, Metadata(serializerClass).type)) THEN Ok(<<>>)
  ELSE relationshipsFrom(Metadata(serializerClass).relationships, Ok(<<>>), item, ParamsOf(opts))

getRelationships(serializerClass, item, opts) ==
  relationshipsFrom(Metadata(serializerClass).relationships, Ok(<<>>), item, ParamsOf(opts))

\* ---------------------------------------------------------------------------
\* SerializerService.serializeItem
\* ---------------------------------------------------------------------------

\* mutant: an id of 0 or "" is rendered instead of refused
itemIdAnyValue(id, item, params) ==
  IF id.fn THEN IdCallback(id.name, item, params)
  ELSE Str(ToStr(Prop(item, id.name)))

\* item[serializerOptions.id] ? item[serializerOptions.id].toString() : null, or the id callback
itemId(id, item, params) ==
  IF id.fn THEN IdCallback(id.name, item, params)
  ELSE IF Truthy(Prop(item, id.name)) THEN Str(ToStr(Prop(item, id.name))) ELSE Null

\* the resource object; relationships is set only when it has a key
ResourceObject(id, type, attributes, relationships) ==
  IF relationships = <<>>
  THEN [id |-> id, type |-> type, attributes |-> attributes]
  ELSE [id |-> id, type |-> type, attributes |-> attributes, relationships |-> relationships]

\* the outer catch: NotFoundException and BadRequestException pass, anything else becomes Error
resourceOf(id, type, attributes, relationships) ==
  IF ~Truthy(id) THEN Thrown("BadRequestException")
  ELSE IF IsThrown(attributes) THEN attributes
  ELSE IF IsThrown(relationships) THEN Thrown("Error")
  ELSE Ok(ResourceObject(id, type, attributes.v, relationships.v))

serializeItem(serializerClass, item, opts) ==
  IF item \in {Undefined, Null} THEN Ok(Null)
  ELSE IF ~Metadata(serializerClass).hasOptions THEN Thrown("NotFoundException")
  ELSE resourceOf(itemId(Metadata(serializerClass).id, item, ParamsOf(opts)),
                  Metadata(serializerClass).type,
                  getAttributes(serializerClass, item, opts),
                  getRelationships(serializerClass, item, opts))

\* ---------------------------------------------------------------------------
\* SpecItem: one record projected by serializeItem under a sparse fieldset
\* ---------------------------------------------------------------------------

\* largest record id of the modelled object graph
MaxId == 2

Word(c) == Str(<<c>>)

\* partial records: a property that is present with one of the values, or absent
Having(name, values) == {name :> v : v \in values} \cup {<<>>}

ProfileRecords == {Obj(IdName :> Num(i) @@ BioName :> Word("b")) : i \in 1..MaxId}
UserRecords ==
  {Obj(IdName :> Num(i) @@ NameName :> Word("n") @@ p) : i \in 1..MaxId, p \in Having(ProfileName, ProfileRecords)}
  \cup {Obj(NameName :> Word("n"))}
CommentRecords == {Obj(IdName :> Num(i) @@ TextName :> Word("c")) : i \in 1..MaxId}

ArticleIds == {Num(1), Num(0), Str(<<"a", "7">>), Str(<<>>)}
ArticleAuthors == {Null, Obj(IdName :> Num(1) @@ NameName :> Word("n")), Obj(NameName :> Word("n"))}
ArticleComments ==
  {Arr(<<>>), Word("x"), Arr(<<Obj(IdName :> Num(1)), Obj(IdName :> Num(2))>>), Arr(<<Obj(IdName :> Num(1)), Null>>)}

ArticleRecords ==
  {Obj(i @@ t @@ p @@ a @@ c @@ BodyName :> Word("b") @@ SecretName :> Word("s")) :
     i \in Having(IdName, ArticleIds), t \in Having(TitleName, {Word("t")}),
     p \in Having(PublicName, {Bool(TRUE)}), a \in Having(AuthorName, ArticleAuthors),
     c \in Having(CommentsName, ArticleComments)}

TagRecords == {Obj(s @@ LabelName :> Word("l")) : s \in Having(SlugName, {Word("x"), Num(5), Num(0)})}

\* the field lists a caller selects for the article type
FieldLists ==
  {<<>>, <<TitleName>>, <<ContentName>>, <<BodyName>>, <<SecretName, TitleName>>,
   <<BogusName, ContentName, SecretName>>}

ItemOptions ==
  {NoOptions}
  \cup {With(NoOptions, "fields", <<[k |-> ArticleType, v |-> Arr(f)]>>) : f \in FieldLists}
  \cup {With(NoOptions, "fields", <<[k |-> UserType, v |-> Arr(<<NameName>>)]>>)}

InitItem ==
  /\ pc = "start"
  /\ registry = NoRegistry
  /\ request = NoRequest
  /\ \/ serializer = "ArticleSerializer" /\ data \in ArticleRecords \cup {Null, Undefined}
     \/ serializer = "TagSerializer" /\ data \in TagRecords
     \/ serializer = "PlainClass" /\ data \in TagRecords
  /\ options \in ItemOptions
  /\ result = NoResult

SerializeItem ==
  /\ pc = "start"
  /\ pc' = "projected"
  /\ result' = serializeItem(serializer, data, options)
  /\ UNCHANGED <<request, registry, serializer, data, options>>

NextItem == SerializeItem

SpecItem == InitItem /\ [][NextItem]_vars

\* the list selected for the serializer's own type, or undefined
SelectedFields == FieldsFor(options, Metadata(serializer).type)

Elements(list) == {list[i] : i \in 1..Len(list)}

\* exposed names the serializer declares, and those whose condition is absent or holds for the record
DeclaredNames == {a.name : a \in Elements(Metadata(serializer).attributes)}
VisibleNames ==
  {a.name : a \in {b \in Elements(Metadata(serializer).attributes) :
                     b.condition = "none" \/ Condition(b.condition, data, ParamsOf(options))}}

\* an object was projected to a resource object under a field list for its type
ProjectedSparse ==
  /\ pc = "projected"
  /\ Truthy(SelectedFields)
  /\ ~IsThrown(result)
  /\ result.v # Null

\* C7 as stated: with fields[type] = F the attribute keys of the resource object are exactly
\* F intersected with the declared exposed names
C7_Original ==
  ProjectedSparse =>
    Elements(OKeys(result.v.attributes)) = Elements(SelectedFields.v) \cap DeclaredNames

\* C7 (amended): with fields[type] = F the attribute keys of the resource object are exactly the
\* names in F that the serializer declares and whose visibility condition is absent or holds for
\* the record; selecting F again from those keys leaves the key set unchanged
C7_SparseAttributes ==
  ProjectedSparse =>
    /\ Elements(OKeys(result.v.attributes)) = Elements(SelectedFields.v) \cap VisibleNames
    /\ Elements(OKeys(result.v.attributes)) \cap Elements(SelectedFields.v)
         = Elements(OKeys(result.v.attributes))
    /\ Len(result.v.attributes) = Cardinality(Elements(OKeys(result.v.attributes)))

C7_Witness ==
  /\ ProjectedSparse
  /\ serializer = "ArticleSerializer"
  /\ SelectedFields = Arr(<<BogusName, ContentName, SecretName>>)
  /\ ~Truthy(Prop(data, PublicName))
  /\ OKeys(result.v.attributes) = <<ContentName>>

\* options without the fields member
WithoutFields(opts) == [x \in DOMAIN opts \ {"fields"} |-> opts[x]]

HasRelationships(resource) == "relationships" \in DOMAIN resource

SameLinkage(a, b) ==
  /\ HasRelationships(a) = HasRelationships(b)
  /\ HasRelationships(a) => a.relationships = b.relationships

SameIdentity(a, b) ==
  /\ IsThrown(a) = IsThrown(b)
  /\ ~IsThrown(a) /\ a.v # Null => a.v.id = b.v.id /\ a.v.type = b.v.type /\ SameLinkage(a.v, b.v)

\* C8: a field list for the record's type changes neither the id, nor the type, nor the
\* relationships member of the resource object: they are those of the projection without fields
C8_SparseKeepsIdentity ==
  (pc = "projected" /\ Truthy(SelectedFields)) =>
    SameIdentity(result, serializeItem(serializer, data, WithoutFields(options)))

C8_Witness ==
  /\ ProjectedSparse
  /\ SelectedFields = Arr(<<TitleName>>)
  /\ result.v.id = Str(<<"a", "7">>)
  /\ result.v.type = ArticleType
  /\ HasRelationships(result.v)
  /\ OGet(result.v.relationships, AuthorName) = [data |-> Linkage(<<"1">>, UserType)]
  /\ OGet(result.v.relationships, CommentsName)
       = [data |-> Arr(<<Linkage(<<"1">>, CommentType), Linkage(<<"2">>, CommentType)>>)]

\* ---------------------------------------------------------------------------
\* JavaScript comparison of the values a record field and a filter operand can hold.
\* A record is an object over a function from property names; an object of the
\* query (a nested filter, the page parameters) is an object over its entry list.
\* ---------------------------------------------------------------------------

EqWord == <<"e", "q">>
NeWord == <<"n", "e">>
GtWord == <<"g", "t">>
LtWord == <<"l", "t">>
InWord == <<"i", "n">>
NinWord == <<"n", "i", "n">>
LikeWord == <<"l", "i", "k", "e">>

\* the characters of this model in code unit order
CodeOrder ==
  <<" ", ",", "-", ".">> \o Digits \o <<":">> \o UpperLetters \o <<"[", "]", "_">> \o LowerLetters

CharCode(c) == CHOOSE i \in 1..Len(CodeOrder) : CodeOrder[i] = c

\* string < string: by code units, a proper prefix is smaller
RECURSIVE LexLess(_, _)
LexLess(a, b) ==
  IF b = <<>> THEN FALSE
  ELSE IF a = <<>> THEN TRUE
  ELSE IF a[1] = b[1] THEN LexLess(Tail(a), Tail(b))
  ELSE CharCode(a[1]) < CharCode(b[1])

AllDigits(s) == s # <<>> /\ \A i \in 1..Len(s) : IsDigit(s[i])

\* Number(string) for blank, signed and unsigned decimal integer strings; anything else is NaN
StrToNumber(s) ==
  IF s = <<>> THEN Num(0)
  ELSE IF AllDigits(s) THEN Num(DigitsPrefixValue(s, 0))
  ELSE IF s[1] = "-" /\ AllDigits(Tail(s)) THEN Num(0 - DigitsPrefixValue(Tail(s), 0))
  ELSE IF s[1] = "+" /\ AllDigits(Tail(s)) THEN Num(DigitsPrefixValue(Tail(s), 0))
  ELSE NaN

\* ToPrimitive: arrays and objects compare through their string form
ToPrimitive(x) == IF x.t \in {"array", "object"} THEN Str(ToStr(x)) ELSE x

\* ToNumber of a primitive
ToNumber(x) ==
  CASE x.t = "num" -> x
    [] x.t = "str" -> StrToNumber(Trim(x.v))
    [] x.t = "bool" -> Num(IF x.v THEN 1 ELSE 0)
    [] x.t = "null" -> Num(0)
    [] OTHER -> NaN

BothStrings(a, b) == a.t = "str" /\ b.t = "str"

\* neither side is NaN once converted: a relational operator on NaN is false
Comparable(a, b) == BothStrings(a, b) \/ (ToNumber(a).t = "num" /\ ToNumber(b).t = "num")

LessPrimitive(a, b) ==
  IF BothStrings(a, b) THEN LexLess(a.v, b.v)
  ELSE Comparable(a, b) /\ ToNumber(a).v < ToNumber(b).v

\* a < b, a > b, a <= b, a >= b
Less(a, b) == LessPrimitive(ToPrimitive(a), ToPrimitive(b))
Greater(a, b) == Less(b, a)
LessEq(a, b) == Comparable(ToPrimitive(a), ToPrimitive(b)) /\ ~Less(b, a)
GreaterEq(a, b) == Comparable(ToPrimitive(a), ToPrimitive(b)) /\ ~Less(a, b)

\* a === b between a record field and a filter operand: two objects or arrays are never
\* the same reference, NaN is equal to nothing
StrictEq(a, b) == a.t \notin {"object", "array", "nan"} /\ a = b

\* Array.prototype.includes (SameValueZero: NaN is found)
ArrayIncludes(elements, x) ==
  x.t \notin {"object", "array"} /\ \E i \in 1..Len(elements) : elements[i] = x

\* string.toLowerCase().includes(other.toLowerCase())
ContainsIgnoreCase(a, b) == Includes(ToLowerCase(a), ToLowerCase(b))

\* ---------------------------------------------------------------------------
\* SerializerService.applyFiltering and applySorting
\* ---------------------------------------------------------------------------

\* operand.includes(field) for an array, String(operand).split(',').includes(String(field)) otherwise
operandIncludes(operand, field) ==
  IF operand.t = "array" THEN ArrayIncludes(operand.v, field)
  ELSE \E i \in 1..Len(Split(ToStr(operand), ",")) : Split(ToStr(operand), ",")[i] = ToStr(field)

\* mutant: gte and lte behave as gt and lt
operatorHoldsStrictly(operator, field, operand) ==
  CASE operator = EqWord -> StrictEq(field, operand)
    [] operator = NeWord -> ~StrictEq(field, operand)
    [] operator = GtWord -> Greater(field, operand)
    [] operator = GteWord -> Greater(field, operand)
    [] operator = LtWord -> Less(field, operand)
    [] operator = LteWord -> Less(field, operand)
    [] operator = InWord -> operandIncludes(operand, field)
    [] operator = NinWord -> ~operandIncludes(operand, field)
    [] operator = LikeWord -> BothStrings(field, operand) /\ ContainsIgnoreCase(field.v, operand.v)
    [] OTHER -> TRUE

\* the switch over the operator of a nested filter
operatorHolds(operator, field, operand) ==
  CASE operator = EqWord -> StrictEq(field, operand)
    [] operator = NeWord -> ~StrictEq(field, operand)
    [] operator = GtWord -> Greater(field, operand)
    [] operator = GteWord -> GreaterEq(field, operand)
    [] operator = LtWord -> Less(field, operand)
    [] operator = LteWord -> LessEq(field, operand)
    [] operator = InWord -> operandIncludes(operand, field)
    [] operator = NinWord -> ~operandIncludes(operand, field)
    [] operator = LikeWord -> BothStrings(field, operand) /\ ContainsIgnoreCase(field.v, operand.v)
    [] OTHER -> TRUE

\* Object.entries(value): the entries of an object, the indexed elements of an array
EntriesOf(value) ==
  IF value.t = "array" THEN [i \in 1..Len(value.v) |-> [k |-> NatToStr(i - 1), v |-> value.v[i]]]
  ELSE value.v

\* Object.entries(value).every(...)
RECURSIVE everyOperator(_, _)
everyOperator(entries, field) ==
  IF entries = <<>> THEN TRUE
  ELSE IF ~operatorHolds(Head(entries).k, field, Head(entries).v) THEN FALSE
  ELSE everyOperator(Tail(entries), field)

\* typeof value !== 'object'
IsSimpleValue(value) == value.t \notin {"object", "array", "null"}

simpleHolds(field, value) ==
  IF BothStrings(field, value) THEN ContainsIgnoreCase(field.v, value.v) ELSE StrictEq(field, value)

\* mutant: a filter on a field the item lacks excludes the item
entryHoldsDefinedOnly(field, value) ==
  IF field = Undefined THEN FALSE
  ELSE IF IsSimpleValue(value) THEN simpleHolds(field, value)
  ELSE everyOperator(EntriesOf(value), field)

\* the callback of Object.entries(filters).every for one item and one entry
entryHolds(field, value) ==
  IF field = Undefined THEN TRUE
  ELSE IF IsSimpleValue(value) THEN simpleHolds(field, value)
  ELSE everyOperator(EntriesOf(value), field)

\* Object.entries(null) throws a TypeError
entryThrows(field, value) == field # Undefined /\ value = Null

\* Object.entries(filters).every(...) for one item: "pass", "fail" or "throw"
RECURSIVE everyFilter(_, _)
everyFilter(filters, item) ==
  IF filters = <<>> THEN "pass"
  ELSE IF entryThrows(Prop(item, Head(filters).k), Head(filters).v) THEN "throw"
  ELSE IF ~entryHolds(Prop(item, Head(filters).k), Head(filters).v) THEN "fail"
  ELSE everyFilter(Tail(filters), item)

keepItem(kept, item, verdict) ==
  IF verdict = "throw" THEN Thrown("TypeError")
  ELSE IF verdict = "pass" THEN Ok(Append(kept.v, item))
  ELSE kept

\* data.filter(...): items are visited in order, a throw ends the visit
RECURSIVE filterFromItems(_, _, _)
filterFromItems(items, filters, kept) ==
  IF items = <<>> \/ IsThrown(kept) THEN kept
  ELSE filterFromItems(Tail(items), filters, keepItem(kept, Head(items), everyFilter(filters, Head(items))))

applyFiltering(items, filters) == filterFromItems(items, filters, Ok(<<>>))

\* the comparator of applySorting: negative, zero or positive
RECURSIVE compareBy(_, _, _)
compareBy(sort, a, b) ==
  IF sort = <<>> THEN 0
  ELSE IF Less(Prop(a, Head(sort).field), Prop(b, Head(sort).field))
       THEN (IF Head(sort).direction = "asc" THEN -1 ELSE 1)
  ELSE IF Greater(Prop(a, Head(sort).field), Prop(b, Head(sort).field))
       THEN (IF Head(sort).direction = "asc" THEN 1 ELSE -1)
  ELSE compareBy(Tail(sort), a, b)

\* Array.prototype.sort is stable: an element goes after those that compare smaller and after
\* the earlier ones that compare equal (for a comparator that orders the elements consistently)
sortRank(items, sort, i) ==
  Cardinality({j \in 1..Len(items) :
                 \/ compareBy(sort, items[j], items[i]) < 0
                 \/ compareBy(sort, items[j], items[i]) = 0 /\ j < i}) + 1

applySorting(items, sort) ==
  [k \in 1..Len(items) |-> items[CHOOSE i \in 1..Len(items) : sortRank(items, sort, i) = k]]

\* ---------------------------------------------------------------------------
\* SpecFilter: applyFiltering over a collection, with the filter maps that the request
\* parser produces and filter maps passed by a caller
\* ---------------------------------------------------------------------------

\* longest collection that is filtered
MaxItems == 2

FilterRecordParts ==
  {s @@ p : s \in Having(StatusName, {Str(<<"O", "n">>), Str(<<"o", "f", "f">>)}),
            p \in Having(PriceName, {Num(1), Num(5)})}

FilterCollections ==
  {[i \in 1..Len(parts) |-> Obj(IdName :> Num(i) @@ parts[i])] :
     parts \in SeqsOf(FilterRecordParts, 0, MaxItems)}

Nested(operator, operand) == Obj(<<[k |-> operator, v |-> operand]>>)

\* filter maps handed to serialize by a caller
CallerFilters ==
  {<<[k |-> PriceName, v |-> c]>> :
     c \in {Num(1), Str(<<"1">>), Arr(<<Num(1)>>),
            Nested(EqWord, Num(5)), Nested(EqWord, Str(<<"5">>)), Nested(NeWord, Num(5)),
            Nested(GtWord, Str(<<"1">>)), Nested(LtWord, Num(5)), Nested(InWord, Str(<<"1", ",", "5">>)),
            Nested(InWord, Arr(<<Num(1)>>)), Nested(NinWord, Str(<<"5">>)),
            Nested(LikeWord, Str(<<"1">>)), Nested(BogusName, Num(9))}}
  \cup {<<[k |-> StatusName, v |-> c], [k |-> PriceName, v |-> Nested(LteWord, Num(1))]>> :
          c \in {Str(<<"O">>), Nested(LikeWord, Str(<<"F", "F">>)), Nested(GteWord, Str(<<"f">>))}}

ParsedFilterOptions ==
  {o \in {getAutoOptions(NoOptions, r) : r \in FilterRequests} : "filter" \in DOMAIN o}

FilterOptions ==
  ParsedFilterOptions \cup {With(NoOptions, "filter", f) : f \in CallerFilters}

InitFilter ==
  /\ pc = "start"
  /\ registry = NoRegistry
  /\ request = NoRequest
  /\ serializer = NoSerializer
  /\ \E items \in FilterCollections : data = Arr(items)
  /\ options \in FilterOptions
  /\ result = NoResult

ApplyFilter ==
  /\ pc = "start"
  /\ pc' = "filtered"
  /\ result' = applyFiltering(data.v, options.filter)
  /\ UNCHANGED <<request, registry, serializer, data, options>>

NextFilter == ApplyFilter

SpecFilter == InitFilter /\ [][NextFilter]_vars

\* the condition of one filter entry on a field value that is defined
EntryCondition(field, value) ==
  IF IsSimpleValue(value) THEN simpleHolds(field, value)
  ELSE \A i \in 1..Len(EntriesOf(value)) :
         operatorHolds(EntriesOf(value)[i].k, field, EntriesOf(value)[i].v)

\* every entry holds for the item, an entry on a field the item lacks counting as true
PassesAll(item) ==
  \A i \in 1..Len(options.filter) :
    \/ Prop(item, options.filter[i].k) = Undefined
    \/ EntryCondition(Prop(item, options.filter[i].k), options.filter[i].v)

\* C10: applyFiltering returns, in the original order, exactly the items for which every
\* filter entry's condition holds; an entry on a field that is undefined on an item is true for it
C10_FilterEveryEntry ==
  pc = "filtered" =>
    /\ ~IsThrown(result)
    /\ result.v = SelectSeq(data.v, PassesAll)

C10_Witness ==
  /\ pc = "filtered"
  /\ Len(options.filter) >= 2
  /\ Len(data.v) = 2
  /\ Len(result.v) = 1
  /\ \E i \in 1..Len(options.filter) :
       /\ Prop(result.v[1], options.filter[i].k) = Undefined
       /\ options.filter[i].k \in FilterFields
  /\ \E i \in 1..Len(options.filter) : Prop(result.v[1], options.filter[i].k) # Undefined

\* ---------------------------------------------------------------------------
\* SerializerRegistry and IncludeProcessor.processIncluded
\* ---------------------------------------------------------------------------

SerializerWord == <<"S", "e", "r", "i", "a", "l", "i", "z", "e", "r">>

\* SerializerRegistry.find: the registered serializer, or "none" for null
find(reg, type) == IF OHas(reg, type) THEN OGet(reg, type) ELSE "none"

\* serializer.name; it is read only for a class that declares no type
SerializerClassName(serializerClass) ==
  CASE serializerClass = "LegacySerializer" -> <<"L", "e", "g", "a", "c", "y">> \o SerializerWord
    [] serializerClass = "PlainClass" -> <<"P", "l", "a", "i", "n", "C", "l", "a", "s", "s">>
    [] OTHER -> SerializerWord

\* the declared type, else the class name without its Serializer suffix in lower case,
\* else <<>> for null
getResourceTypeFromSerializer(serializerClass) ==
  IF Metadata(serializerClass).hasOptions /\ Metadata(serializerClass).type # <<>>
  THEN Metadata(serializerClass).type
  ELSE IF EndsWith(SerializerClassName(serializerClass), SerializerWord)
       THEN ToLowerCase(SubSeq(SerializerClassName(serializerClass), 1,
                               Len(SerializerClassName(serializerClass)) - Len(SerializerWord)))
       ELSE <<>>

\* mutant: an entry that exists is kept
registerFirstWins(reg, type, serializerClass) ==
  IF OHas(reg, type) THEN reg ELSE OSet(reg, type, serializerClass)

\* this.serializers.set(type, serializer)
register(reg, type, serializerClass) == OSet(reg, type, serializerClass)

\* registerByClassName: a serializer without a derivable type name is not registered
registerByClassName(reg, serializerClass) ==
  IF getResourceTypeFromSerializer(serializerClass) # <<>>
  THEN register(reg, getResourceTypeFromSerializer(serializerClass), serializerClass)
  ELSE reg

\* the third lookup: through the polymorphic map of the relationship
findPolymorphic(reg, rel, typeName) ==
  IF rel.polymorphic.t = "object" /\ Truthy(OGet(rel.polymorphic.v, typeName))
  THEN find(reg, OGet(rel.polymorphic.v, typeName).v)
  ELSE "none"

findByConvention(reg, rel, typeName) ==
  IF find(reg, ToLowerCase(typeName \o SerializerWord)) # "none"
  THEN find(reg, ToLowerCase(typeName \o SerializerWord))
  ELSE findPolymorphic(reg, rel, typeName)

findByClass(reg, rel, typeName) ==
  IF find(reg, ToLowerCase(typeName)) # "none" THEN find(reg, ToLowerCase(typeName))
  ELSE findByConvention(reg, rel, typeName)

\* "Determine serializer to use"
relatedSerializerOf(reg, rel, relatedItem) ==
  IF rel.serializer # "none" THEN rel.serializer
  ELSE findByClass(reg, rel, ClassNameOf(relatedItem).v)

\* mutant: only a path that names the relationship itself selects it
relRequestedExact(rel, includePaths) ==
  \E i \in 1..Len(includePaths) : includePaths[i] = rel.name

\* includePaths.some(path => path === rel.name || path.startsWith(`${rel.name}.`))
relRequested(rel, includePaths) ==
  \E i \in 1..Len(includePaths) :
    includePaths[i] = rel.name \/ StartsWith(includePaths[i], rel.name \o <<".">>)

underRel(rel, path) == StartsWith(path, rel.name \o <<".">>)
afterRel(rel, path) == SubSeq(path, Len(rel.name) + 2, Len(path))

\* mutant: the paths under the relationship are passed on whole
nextLevelIncludesWhole(rel, includePaths) ==
  LET under(path) == underRel(rel, path)
  IN FilterSeq(includePaths, under)

nextLevelIncludes(rel, includePaths) ==
  LET under(path) == underRel(rel, path)
      rest(path) == afterRel(rel, path)
  IN MapSeq(FilterSeq(includePaths, under), rest)

\* Array.isArray(relatedItems) ? relatedItems : [relatedItems]
relatedList(relatedItems) == IF relatedItems.t = "array" THEN relatedItems.v ELSE <<relatedItems>>

\* `${serialized.type}:${serialized.id}`
includedKey(serialized) == serialized.type \o <<":">> \o ToStr(serialized.id)

\* The traversal carries the included map (insertion ordered) and, as a history of the
\* calls made, every projection that serializeItemFn returned.
NoIncluded == Ok([included |-> <<>>, projected |-> <<>>])

\* mutant: a later discovery replaces the stored projection
rememberLast(acc, serialized) ==
  Ok([included |-> OSet(acc.v.included, includedKey(serialized), serialized),
      projected |-> Append(acc.v.projected, serialized)])

\* if (!included.has(key)) included.set(key, serialized)
remember(acc, serialized) ==
  Ok([included |-> IF OHas(acc.v.included, includedKey(serialized)) THEN acc.v.included
                   ELSE OSet(acc.v.included, includedKey(serialized), serialized),
      projected |-> Append(acc.v.projected, serialized)])

RECURSIVE process(_, _, _, _, _, _)
RECURSIVE processRelationships(_, _, _, _, _, _)
RECURSIVE processRelatedItems(_, _, _, _, _, _)

\* after serializeItemFn returned or threw for one related item
processSerialized(reg, opts, relatedSerializer, relatedItem, nextLevel, acc, serialized) ==
  IF IsThrown(serialized) THEN Thrown("Error")
  ELSE IF serialized.v = Null \/ ~Truthy(serialized.v.id) \/ serialized.v.type = <<>> THEN acc
  ELSE IF nextLevel # <<>>
       THEN process(reg, opts, relatedSerializer, relatedItem, nextLevel, remember(acc, serialized.v))
       ELSE remember(acc, serialized.v)

processWith(reg, opts, relatedSerializer, relatedItem, nextLevel, acc) ==
  IF relatedSerializer = "none" THEN acc
  ELSE processSerialized(reg, opts, relatedSerializer, relatedItem, nextLevel, acc,
                         serializeItem(relatedSerializer, relatedItem, With(opts, "include", nextLevel)))

processRelatedItem(reg, opts, rel, relatedItem, nextLevel, acc) ==
  IF ~Truthy(relatedItem) THEN acc
  ELSE processWith(reg, opts, relatedSerializerOf(reg, rel, relatedItem), relatedItem, nextLevel, acc)

\* for (const relatedItem of items)
processRelatedItems(reg, opts, rel, items, nextLevel, acc) ==
  IF items = <<>> \/ IsThrown(acc) THEN acc
  ELSE processRelatedItems(reg, opts, rel, Tail(items), nextLevel,
                           processRelatedItem(reg, opts, rel, Head(items), nextLevel, acc))

processRelationship(reg, opts, rel, item, includePaths, acc) ==
  IF ~relRequested(rel, includePaths) THEN acc
  ELSE IF Prop(item, rel.property) \in {Undefined, Null} THEN acc
  ELSE processRelatedItems(reg, opts, rel, relatedList(Prop(item, rel.property)),
                           nextLevelIncludes(rel, includePaths), acc)

\* for (const rel of relationships)
processRelationships(reg, opts, relationships, item, includePaths, acc) ==
  IF relationships = <<>> \/ IsThrown(acc) THEN acc
  ELSE processRelationships(reg, opts, Tail(relationships), item, includePaths,
                            processRelationship(reg, opts, Head(relationships), item, includePaths, acc))

\* the inner function process(serializerClass, item, includePaths)
process(reg, opts, serializerClass, item, includePaths, acc) ==
  IF IsThrown(acc) \/ ~Truthy(item) THEN acc
  ELSE processRelationships(reg, opts, Metadata(serializerClass).relationships, item, includePaths, acc)

\* for (const item of data) process(mainSerializer, item, options.include || [])
RECURSIVE processRoots(_, _, _, _, _)
processRoots(reg, opts, mainSerializer, items, acc) ==
  IF items = <<>> \/ IsThrown(acc) THEN acc
  ELSE processRoots(reg, opts, mainSerializer, Tail(items),
                    process(reg, opts, mainSerializer, Head(items), IncludeOf(opts), acc))

\* the traversal of processIncluded, with its history
traverseIncluded(reg, mainSerializer, rootData, opts) ==
  IF rootData.t = "array" THEN processRoots(reg, opts, mainSerializer, rootData.v, NoIncluded)
  ELSE process(reg, opts, mainSerializer, rootData, IncludeOf(opts), NoIncluded)

\* Array.from(included.values())
includedValues(traversal) ==
  IF IsThrown(traversal) THEN traversal
  ELSE Ok([i \in 1..Len(traversal.v.included) |-> traversal.v.included[i].v])

processIncluded(reg, mainSerializer, rootData, opts) ==
  includedValues(traverseIncluded(reg, mainSerializer, rootData, opts))

\* ---------------------------------------------------------------------------
\* SerializerService.serialize
\* ---------------------------------------------------------------------------

\* if (finalOptions.filter && Object.keys(finalOptions.filter).length > 0)
filterStage(items, opts) ==
  IF "filter" \in DOMAIN opts /\ opts.filter # <<>> THEN applyFiltering(items, opts.filter)
  ELSE Ok(items)

\* if (finalOptions.sort && finalOptions.sort.length > 0)
sortStage(filtered, opts) ==
  IF IsThrown(filtered) THEN filtered
  ELSE IF "sort" \in DOMAIN opts /\ opts.sort # <<>> THEN Ok(applySorting(filtered.v, opts.sort))
  ELSE filtered

\* if (finalOptions.pagination): the page, its meta and its links
pageStage(sorted, opts) ==
  IF IsThrown(sorted) THEN sorted
  ELSE IF "pagination" \in DOMAIN opts THEN Ok(applyPagination(sorted.v, opts.pagination))
  ELSE Ok([data |-> sorted.v, meta |-> <<>>, links |-> <<>>])

\* processedData.map(item => this.serializeItem(serializer, item, finalOptions))
RECURSIVE serializeItems(_, _, _, _)
serializeItems(serializerClass, items, opts, acc) ==
  IF items = <<>> \/ IsThrown(acc) THEN acc
  ELSE serializeItems(serializerClass, Tail(items), opts,
                      IF IsThrown(serializeItem(serializerClass, Head(items), opts))
                      THEN serializeItem(serializerClass, Head(items), opts)
                      ELSE Ok(Append(acc.v, serializeItem(serializerClass, Head(items), opts).v)))

\* if (finalOptions.include?.length)
includeStage(reg, serializerClass, processedData, opts) ==
  IF IncludeOf(opts) # <<>> THEN processIncluded(reg, serializerClass, processedData, opts)
  ELSE Ok(<<>>)

withIncluded(doc, opts, included) ==
  IF IncludeOf(opts) # <<>> THEN With(doc, "included", included) ELSE doc

withMeta(doc, meta) == IF DOMAIN meta # {} THEN With(doc, "meta", meta) ELSE doc

withLinks(doc, links) == IF DOMAIN links # {} THEN With(doc, "links", links) ELSE doc

\* mutant: a failure while the included resources are processed leaves included out
documentOfWithoutIncluded(primary, included, opts, meta, links) ==
  IF IsThrown(primary) THEN primary
  ELSE IF IsThrown(included) THEN Ok(withLinks(withMeta([data |-> primary.v], meta), links))
  ELSE Ok(withLinks(withMeta(withIncluded([data |-> primary.v], opts, included.v), meta), links))

\* the result object; the catch lets NotFoundException and BadRequestException through
documentOf(primary, included, opts, meta, links) ==
  IF IsThrown(primary) THEN primary
  ELSE IF IsThrown(included) THEN Thrown("Error")
  ELSE Ok(withLinks(withMeta(withIncluded([data |-> primary.v], opts, included.v), meta), links))

\* the mapped array as a value
arrayOf(mapped) == IF IsThrown(mapped) THEN mapped ELSE Ok(Arr(mapped.v))

collectionDocument(reg, serializerClass, page, opts) ==
  IF IsThrown(page) THEN Thrown("Error")
  ELSE documentOf(arrayOf(serializeItems(serializerClass, page.v.data, opts, Ok(<<>>))),
                  includeStage(reg, serializerClass, Arr(page.v.data), opts),
                  opts, page.v.meta, page.v.links)

singleDocument(reg, serializerClass, item, opts) ==
  documentOf(serializeItem(serializerClass, item, opts),
             includeStage(reg, serializerClass, item, opts), opts, <<>>, <<>>)

\* mutant: the page is cut from the input and filtered and sorted afterwards
serializeWithPageFirst(reg, serializerClass, rootData, finalOptions) ==
  IF IsThrown(finalOptions) THEN Thrown("Error")
  ELSE IF rootData \in {Undefined, Null} THEN Ok([data |-> Null])
  ELSE IF rootData.t = "array"
       THEN collectionDocument(reg, serializerClass,
                               Ok([data |-> sortStage(filterStage(pageStage(Ok(rootData.v), finalOptions).v.data,
                                                                  finalOptions), finalOptions).v,
                                   meta |-> pageStage(Ok(rootData.v), finalOptions).v.meta,
                                   links |-> pageStage(Ok(rootData.v), finalOptions).v.links]),
                               finalOptions)
       ELSE singleDocument(reg, serializerClass, rootData, finalOptions)

serializeWith(reg, serializerClass, rootData, finalOptions) ==
  IF IsThrown(finalOptions) THEN Thrown("Error")
  ELSE IF rootData \in {Undefined, Null} THEN Ok([data |-> Null])
  ELSE IF rootData.t = "array"
       THEN collectionDocument(reg, serializerClass,
                               pageStage(sortStage(filterStage(rootData.v, finalOptions), finalOptions),
                                         finalOptions),
                               finalOptions)
       ELSE singleDocument(reg, serializerClass, rootData, finalOptions)

\* serialize(serializer, data, options) while request req is the current request; reg is the
\* registry after registerByClassName(serializer)
serialize(reg, serializerClass, rootData, opts, req) ==
  serializeWith(reg, serializerClass, rootData, getAutoOptions(opts, req))

\* ---------------------------------------------------------------------------
\* SpecDocument: serialize(serializer, data) of one object or a collection while a request
\* with include parameters, or no request parameter at all, is current
\* ---------------------------------------------------------------------------

\* longest collection that is serialized
MaxRoots == 2

Profile(i) == Obj(IdName :> Num(i) @@ BioName :> Word("b"))
User(i, name, rest) == Obj(IdName :> Num(i) @@ NameName :> Word(name) @@ ConstructorName :> Str(UserClass) @@ rest)
Comment(i, rest) == Obj(IdName :> Num(i) @@ TextName :> Word("c") @@ rest)

\* authors: the same user read twice (once with another name), with and without a profile
GraphUsers ==
  {User(1, "n", <<>>), User(1, "m", <<>>), User(1, "n", ProfileName :> Profile(1)),
   User(2, "n", ProfileName :> Profile(1))}

GraphComments ==
  {Arr(<<Comment(1, <<>>)>>),
   Arr(<<Comment(1, AuthorName :> User(2, "n", <<>>)), Comment(2, AuthorName :> User(1, "m", <<>>))>>)}

GraphArticles ==
  {Obj(IdName :> Num(i) @@ TitleName :> Word("t") @@ a @@ c) :
     i \in 1..MaxId, a \in Having(AuthorName, GraphUsers), c \in Having(CommentsName, GraphComments)}

\* collections of articles with ids 1, 2, ...
GraphCollections ==
  {Arr(items) : items \in {l \in SeqsOf(GraphArticles, 0, MaxRoots) :
                             \A i \in 1..Len(l) : Prop(l[i], IdName) = Num(i)}}

\* the include requests of a deployment that allows author only, or has no allow-list
DocumentRequests ==
  {r \in IncludeRequests : r.allowedIncludes \in {Undefined, Arr(<<AuthorName>>)}}

Registries == {NoRegistry, <<[k |-> UserType, v |-> "UserSerializer"]>>}

InitDocument ==
  /\ pc = "start"
  /\ registry \in Registries
  /\ options = NoOptions
  /\ result = NoResult
  /\ \/ /\ serializer = "ArticleSerializer"
        /\ data \in {a \in GraphArticles : Prop(a, IdName) = Num(1)} \cup GraphCollections
        /\ request \in DocumentRequests
     \/ /\ serializer = "ArticleSerializer"
        /\ data \in ArticleRecords \cup {Null, Undefined}
        /\ request = NoRequest
     \/ /\ serializer \in {"TagSerializer", "PlainClass"}
        /\ data \in TagRecords
        /\ request = NoRequest

Serialize ==
  /\ pc = "start"
  /\ pc' = "serialized"
  /\ registry' = registerByClassName(registry, serializer)
  /\ result' = serialize(registry', serializer, data, options, request)
  /\ UNCHANGED <<request, serializer, data, options>>

NextDocument == Serialize

SpecDocument == InitDocument /\ [][NextDocument]_vars

\* the root records handed to serialize
Roots == IF data.t = "array" THEN Elements(data.v) ELSE {data}

\* the resource objects of the document's included member
IncludedResources == Elements(result.v.included)

IsResourceOf(resource, type, record) ==
  resource.type = type /\ resource.id = Str(ToStr(Prop(record, IdName)))

AuthorsOfRoots == {Prop(r, AuthorName) : r \in Roots} \ {Undefined}
ProfilesOfAuthors == {Prop(a, ProfileName) : a \in AuthorsOfRoots} \ {Undefined}

\* include=author.profile,comments was requested where only author is allowed
AuthorOnlyCase ==
  /\ pc = "serialized"
  /\ request.allowedIncludes = Arr(<<AuthorName>>)
  /\ request.query = IncludeQuery(<<Dot(AuthorName, ProfileName), CommentsName>>)
  /\ ~IsThrown(result)

\* C3 as stated: included holds the author's target, nothing reached through the author's
\* profile and nothing reached through comments
C3_Original ==
  AuthorOnlyCase =>
    /\ \A a \in AuthorsOfRoots : \E e \in IncludedResources : IsResourceOf(e, UserType, a)
    /\ \A e \in IncludedResources : e.type # ProfileType
    /\ \A e \in IncludedResources : e.type # CommentType

\* C3 (amended): included holds the author's target and, author.profile being an extension of
\* the allowed path author, the profile of that author; it holds nothing reached through
\* comments: every included resource is an author of a root or the profile of one
C3_AuthorAndProfile ==
  AuthorOnlyCase =>
    /\ \A a \in AuthorsOfRoots : \E e \in IncludedResources : IsResourceOf(e, UserType, a)
    /\ \A p \in ProfilesOfAuthors : \E e \in IncludedResources : IsResourceOf(e, ProfileType, p)
    /\ \A e \in IncludedResources :
         \/ \E a \in AuthorsOfRoots : IsResourceOf(e, UserType, a)
         \/ \E p \in ProfilesOfAuthors : IsResourceOf(e, ProfileType, p)

C3_Witness ==
  /\ AuthorOnlyCase
  /\ data.t = "object"
  /\ Prop(data, AuthorName) = User(1, "n", ProfileName :> Profile(1))
  /\ Prop(data, CommentsName) \in GraphComments
  /\ Len(Prop(data, CommentsName).v) = 2
  /\ Len(result.v.included) = 2
  /\ result.v.included[1].type = UserType
  /\ result.v.included[1].id = Str(<<"1">>)
  /\ result.v.included[2].type = ProfileType

\* the serializer's identity rule applied to the record: the value of the id callback,
\* or the value of the named id property
IdentityValue == Prop(data, Metadata(serializer).id.name)

IdentityId == IF Metadata(serializer).id.fn THEN IdentityValue ELSE Str(ToStr(IdentityValue))

\* serialize was called on one object with a decorated serializer
SingleCase ==
  /\ pc = "serialized"
  /\ data.t = "object"
  /\ Metadata(serializer).hasOptions

\* C9 as stated: every single object yields a document whose data.id is the identity rule's
\* value and whose data.type is the declared type
C9_Original ==
  SingleCase =>
    /\ ~IsThrown(result)
    /\ result.v.data.id = IdentityId
    /\ result.v.data.type = Metadata(serializer).type

\* C9 (amended): when serialize of a single object returns, data.id is the identity rule's value
\* and data.type the declared type; when the identity rule yields a falsy value (absent, null,
\* 0, "") it throws BadRequestException; any other failure is an Error from a related object
\* whose linkage cannot be built
C9_SingleIdentity ==
  SingleCase =>
    /\ ~Truthy(IdentityValue) => result = Thrown("BadRequestException")
    /\ Truthy(IdentityValue) /\ IsThrown(result) =>
         result = Thrown("Error") /\ IsThrown(getRelationships(serializer, data, options))
    /\ ~IsThrown(result) =>
         result.v.data.id = IdentityId /\ result.v.data.type = Metadata(serializer).type

C9_Witness ==
  /\ SingleCase
  /\ serializer = "TagSerializer"
  /\ Prop(data, SlugName) = Word("x")
  /\ result.v.data.id = Word("x")
  /\ result.v.data.type = TagType

\* ---------------------------------------------------------------------------
\* SpecInclude: processIncluded over root records and an include path list
\* ---------------------------------------------------------------------------

IncludeOptions == {With(NoOptions, "include", paths) : paths \in SeqsOf(RequestedPaths, 0, MaxIncludePaths)}

InitInclude ==
  /\ pc = "start"
  /\ registry \in {registerByClassName(r, "ArticleSerializer") : r \in Registries}
  /\ request = NoRequest
  /\ serializer = "ArticleSerializer"
  /\ data \in {a \in GraphArticles : Prop(a, IdName) = Num(1)} \cup GraphCollections
  /\ options \in IncludeOptions
  /\ result = NoResult

\* result keeps the included map together with the history of projections
ProcessIncluded ==
  /\ pc = "start"
  /\ pc' = "included"
  /\ result' = traverseIncluded(registry, serializer, data, options)
  /\ UNCHANGED <<request, registry, serializer, data, options>>

NextInclude == ProcessIncluded

SpecInclude == InitInclude /\ [][NextInclude]_vars

\* the array processIncluded returns, and the projections serializeItemFn returned, in call order
IncludedArray == includedValues(result).v
Projections == result.v.projected

SamePair(a, b) == a.type = b.type /\ a.id = b.id

\* index of the first projection made for the pair of resource e
FirstProjection(e) ==
  CHOOSE i \in 1..Len(Projections) :
    /\ SamePair(Projections[i], e)
    /\ \A j \in 1..(i - 1) : ~SamePair(Projections[j], e)

OnePerPair ==
  \A i, j \in 1..Len(IncludedArray) : SamePair(IncludedArray[i], IncludedArray[j]) => i = j

FirstSeenKept ==
  /\ \A i \in 1..Len(IncludedArray) :
       /\ \E k \in 1..Len(Projections) : SamePair(Projections[k], IncludedArray[i])
       /\ IncludedArray[i] = Projections[FirstProjection(IncludedArray[i])]
  /\ \A k \in 1..Len(Projections) :
       \E i \in 1..Len(IncludedArray) : SamePair(Projections[k], IncludedArray[i])
  /\ \A i, j \in 1..Len(IncludedArray) :
       i < j => FirstProjection(IncludedArray[i]) < FirstProjection(IncludedArray[j])

NeverProjectedAgain ==
  \A i, j \in 1..Len(Projections) : SamePair(Projections[i], Projections[j]) => i = j

Traversed == pc = "included" /\ ~IsThrown(result)

\* C6 as stated: one entry per (type, id), the entry is the projection of the first discovery,
\* and a later discovery of the pair is neither stored nor projected again
C6_Original == Traversed => OnePerPair /\ FirstSeenKept /\ NeverProjectedAgain

\* C6 (amended): included has at most one entry per (type, id), in the order of first
\* discovery, and the entry is the projection made at the first discovery; a later discovery of
\* the pair is projected again, but its projection is dropped and every projected pair has its entry
C6_IncludedOncePerPair == Traversed => OnePerPair /\ FirstSeenKept

\* two roots relate to the same user, read with different names: one entry, the first one's
C6_Witness ==
  /\ Traversed
  /\ data.t = "array"
  /\ Len(data.v) = 2
  /\ Prop(data.v[1], AuthorName) = User(1, "n", <<>>)
  /\ Prop(data.v[2], AuthorName) = User(1, "m", <<>>)
  /\ IncludeOf(options) = <<AuthorName>>
  /\ Len(Projections) = 2
  /\ Len(IncludedArray) = 1
  /\ OGet(IncludedArray[1].attributes, NameName) = Word("n")

\* ---------------------------------------------------------------------------
\* The JSON:API repository proxy: buildQueryParams, wrapRepositoryMethod and its helpers
\* ---------------------------------------------------------------------------

\* one QueryFilter per simple entry, one per operator of a nested entry
filterParams(field, value) ==
  IF IsSimpleValue(value) THEN <<[field |-> field, operator |-> EqWord, value |-> value]>>
  ELSE [i \in 1..Len(EntriesOf(value)) |->
          [field |-> field, operator |-> EntriesOf(value)[i].k, value |-> EntriesOf(value)[i].v]]

RECURSIVE queryFilters(_)
queryFilters(filter) ==
  IF filter = <<>> THEN <<>>
  ELSE filterParams(Head(filter).k, Head(filter).v) \o queryFilters(Tail(filter))

NoQueryPagination == [page |-> Undefined, perPage |-> Undefined]

\* only the offset members are read by the proxy; the cursor members are built and not used
queryPagination(pagination) ==
  IF pagination.number # Undefined /\ pagination.size # Undefined
  THEN [page |-> pagination.number, perPage |-> pagination.size]
  ELSE NoQueryPagination

buildQueryParams(opts) ==
  [filters |-> IF "filter" \in DOMAIN opts THEN queryFilters(opts.filter) ELSE <<>>,
   sorts |-> IF "sort" \in DOMAIN opts THEN opts.sort ELSE <<>>,
   pagination |-> IF "pagination" \in DOMAIN opts THEN queryPagination(opts.pagination)
                  ELSE NoQueryPagination]

\* the TypeORM find operator put under where[field]
FindOperator(kind, value) == [kind |-> kind, value |-> value]

whereOperator(filter) ==
  CASE filter.operator = EqWord ->
         IF filter.value.t = "str" THEN FindOperator("Like", filter.value)
         ELSE FindOperator("Equal", filter.value)
    [] filter.operator = LikeWord -> FindOperator("Like", filter.value)
    [] filter.operator = GtWord -> FindOperator("MoreThan", filter.value)
    [] filter.operator = GteWord -> FindOperator("MoreThanOrEqual", filter.value)
    [] filter.operator = LtWord -> FindOperator("LessThan", filter.value)
    [] filter.operator = LteWord -> FindOperator("LessThanOrEqual", filter.value)
    [] filter.operator = NeWord -> FindOperator("Not", filter.value)
    [] OTHER -> FindOperator("Equal", filter.value)

\* filters.forEach: a later filter on the same field replaces the earlier one
RECURSIVE whereFrom(_, _)
whereFrom(filters, where) ==
  IF filters = <<>> THEN where
  ELSE whereFrom(Tail(filters), OSet(where, Head(filters).field, whereOperator(Head(filters))))

applyFilters(queryOptions, filters) ==
  IF filters = <<>> THEN queryOptions ELSE With(queryOptions, "where", whereFrom(filters, <<>>))

RECURSIVE orderFrom(_, _)
orderFrom(sorts, order) ==
  IF sorts = <<>> THEN order
  ELSE orderFrom(Tail(sorts),
                 OSet(order, Head(sorts).field, IF Head(sorts).direction = "asc" THEN "ASC" ELSE "DESC"))

applyRepositorySorting(queryOptions, sorts) ==
  IF sorts = <<>> THEN queryOptions ELSE With(queryOptions, "order", orderFrom(sorts, <<>>))

\* skip = (page - 1) * perPage, take = perPage
applyRepositoryPagination(queryOptions, pagination) ==
  IF pagination.page = Undefined \/ pagination.perPage = Undefined THEN queryOptions
  ELSE With(With(queryOptions, "skip",
                 IF pagination.page.t = "num" /\ pagination.perPage.t = "num"
                 THEN Num((pagination.page.v - 1) * pagination.perPage.v) ELSE NaN),
            "take", pagination.perPage)

\* find() is called without arguments: the query options start empty
createQueryOptions(params) ==
  applyRepositoryPagination(
    applyRepositorySorting(applyFilters(<<>>, params.filters), params.sorts), params.pagination)

\* the second allow-list pass of wrapRepositoryMethod over serializerOptions.filter
allowedAgain(opts, allowedFilters) ==
  LET listed(e) == \E i \in 1..Len(allowedFilters.v) : allowedFilters.v[i] = e.k IN
  IF Truthy(allowedFilters) /\ "filter" \in DOMAIN opts
  THEN With(opts, "filter", FilterSeq(opts.filter, listed))
  ELSE opts

\* what find() of the underlying repository does with a find operator
operatorMatches(operator, field) ==
  CASE operator.kind = "Like" -> Includes(ToStr(field), operator.value.v)
    [] operator.kind = "MoreThan" -> Greater(field, operator.value)
    [] operator.kind = "MoreThanOrEqual" -> GreaterEq(field, operator.value)
    [] operator.kind = "LessThan" -> Less(field, operator.value)
    [] operator.kind = "LessThanOrEqual" -> LessEq(field, operator.value)
    [] operator.kind = "Not" -> ToStr(field) # ToStr(operator.value)
    [] OTHER -> ToStr(field) = ToStr(operator.value)

rowMatches(where, row) ==
  \A i \in 1..Len(where) : operatorMatches(where[i].v, Prop(row, where[i].k))

\* the rows of the table that match, ordered, then skip and take
whereStage(table, queryOptions) ==
  IF "where" \in DOMAIN queryOptions
  THEN LET matches(row) == rowMatches(queryOptions.where, row) IN SelectSeq(table, matches)
  ELSE table

orderStage(rows, queryOptions) ==
  IF "order" \in DOMAIN queryOptions
  THEN applySorting(rows, [i \in 1..Len(queryOptions.order) |->
                             [field |-> queryOptions.order[i].k,
                              direction |-> IF queryOptions.order[i].v = "ASC" THEN "asc" ELSE "desc"]])
  ELSE rows

limitStage(rows, queryOptions) ==
  IF "take" \in DOMAIN queryOptions
  THEN Slice(rows, queryOptions.skip.v, queryOptions.skip.v + queryOptions.take.v)
  ELSE rows

repositoryFind(table, queryOptions) ==
  limitStage(orderStage(whereStage(table, queryOptions), queryOptions), queryOptions)

\* originalMethod.apply(target, [queryOptions]) with the options built from the current request
findWith(table, serializerOptions, allowedFilters) ==
  IF IsThrown(serializerOptions) THEN Thrown("TypeError")
  ELSE Ok(Arr(repositoryFind(table, createQueryOptions(buildQueryParams(allowedAgain(serializerOptions, allowedFilters))))))

wrapRepositoryMethod(table, req) ==
  findWith(table, getAutoOptions(NoOptions, req), req.allowedFilters)

\* ---------------------------------------------------------------------------
\* JSONAPIResponseInterceptor.processResponse
\* ---------------------------------------------------------------------------

\* default page size when neither the decorator nor the module options give one
DefaultPageSize == 10

\* query.page parsed into an object with one of the four members, or one of the flat keys
requestHasPaginationParams(query) ==
  \/ /\ Truthy(OGet(query, PagePrefix))
     /\ \E member \in {NumberWord, SizeWord, AfterWord, BeforeWord} :
          Prop(OGet(query, PagePrefix), member) # Undefined
  \/ \E key \in {PageNumberKey, PageSizeKey, PageAfterKey, PageBeforeKey} : OGet(query, key) # Undefined

\* pagination is enabled unless switched off; without page parameters the first page is served
buildSerializerOptions(req) ==
  IF requestHasPaginationParams(req.query) THEN NoOptions
  ELSE With(NoOptions, "pagination",
            [number |-> Num(1), size |-> Num(DefaultPageSize), after |-> Undefined,
             before |-> Undefined, count |-> Bool(TRUE)])

\* mutant: the error of serialize is passed on to the host
serializedOrThrown(raw, document) == document

\* the catch around serialize: on an error the handler's data goes out as it is
serializedOrRaw(raw, document) == IF IsThrown(document) THEN Ok(raw) ELSE document

processResponse(reg, serializerClass, raw, req) ==
  IF ~Truthy(raw) THEN Ok(raw)
  ELSE serializedOrRaw(raw, serialize(reg, serializerClass, raw, buildSerializerOptions(req), req))

\* ---------------------------------------------------------------------------
\* SpecRepo: a controller returns repository.find() of the proxy and the response
\* interceptor serializes what it returned, both under the same request
\* ---------------------------------------------------------------------------

PageQuery(p, s) ==
  <<[k |-> PageNumberKey, v |-> Str(NumToStr(p))], [k |-> PageSizeKey, v |-> Str(NumToStr(s))]>>

\* optional sort and filter parameters of the request
SortQueries == {<<>>, <<[k |-> SortKey, v |-> Str(<<"-">> \o IdName)]>>}
FilterQueries ==
  {<<>>, <<[k |-> FilterPrefix \o <<"[">> \o IdName \o <<"]", "[">> \o GteWord \o <<"]">>, v |-> Str(<<"2">>)]>>}

RepoRequests ==
  {[query |-> PageQuery(p, s) \o sq \o fq, allowedFilters |-> Arr(<<IdName>>), allowedIncludes |-> Undefined] :
     p \in 1..MaxPage, s \in PaginationSizes, sq \in SortQueries, fq \in FilterQueries}

InitRepo ==
  /\ pc = "start"
  /\ registry = NoRegistry
  /\ serializer = "ArticleSerializer"
  /\ request \in RepoRequests
  /\ \E n \in PaginationTotals : data = Arr(Collection(n))
  /\ options = NoOptions
  /\ result = NoResult

\* the controller's handler: return await this.repository.find()
Find ==
  /\ pc = "start"
  /\ result' = wrapRepositoryMethod(data.v, request)
  /\ pc' = IF IsThrown(result') THEN "failed" ELSE "fetched"
  /\ UNCHANGED <<request, registry, serializer, data, options>>

\* the interceptor maps the handler's value to the response body
Respond ==
  /\ pc = "fetched"
  /\ pc' = "responded"
  /\ registry' = registerByClassName(registry, serializer)
  /\ result' = processResponse(registry', serializer, result.v, request)
  /\ UNCHANGED <<request, serializer, data, options>>

NextRepo == Find \/ Respond

SpecRepo == InitRepo /\ [][NextRepo]_vars

\* what the request asks for, read once
RequestedOptions == getAutoOptions(NoOptions, request)
RequestedPage == RequestedOptions.pagination.number.v
RequestedSize == RequestedOptions.pagination.size.v

\* the stored rows that match the request's filter, in the request's order
StoredMatching == sortStage(filterStage(data.v, RequestedOptions), RequestedOptions).v

\* rows (p-1)*s+1 .. p*s of them
StoredPage == Slice(StoredMatching, (RequestedPage - 1) * RequestedSize, RequestedPage * RequestedSize)

\* C2 as stated: the document served for page[number]=p, page[size]=s holds the stored items at
\* positions (p-1)*s+1 .. p*s and meta.total is the stored item count: filtering, sorting and
\* pagination take effect once across repository.find() and serialize
C2_Original ==
  pc = "responded" =>
    /\ "data" \in DOMAIN result.v
    /\ result.v.data.t = "array"
    /\ Len(result.v.data.v) = Len(StoredPage)
    /\ \A i \in 1..Len(StoredPage) :
         result.v.data.v[i].id = Str(ToStr(Prop(StoredPage[i], IdName)))
    /\ "meta" \in DOMAIN result.v
    /\ result.v.meta.total = Len(StoredMatching)

\* ---------------------------------------------------------------------------
\* SpecCompare: applyFiltering with one ordering operator on the price field, the
\* operand coming from the query string (a string) or from a caller (a number)
\* ---------------------------------------------------------------------------

\* longest generated collection that is filtered by an ordering operator
MaxCompared == 2

OrderOperators == {GtWord, GteWord, LtWord, LteWord}

Hundred == <<"1", "0", "0">>
Fifty == <<"5", "0">>

\* price values: numbers, a numeric string, null, or no price at all
ComparedPrices == Having(PriceName, {Num(10), Num(100), Num(200), Str(Fifty), Null})

\* the collection of the README example: prices 10, 50, 100, 150, 200
ExamplePrices == <<10, 50, 100, 150, 200>>

ExampleCollection == [i \in 1..Len(ExamplePrices) |-> Obj(IdName :> Num(i) @@ PriceName :> Num(ExamplePrices[i]))]

ComparedCollections ==
  {[i \in 1..Len(parts) |-> Obj(IdName :> Num(i) @@ parts[i])] :
     parts \in SeqsOf(ComparedPrices, 0, MaxCompared)}
  \cup {ExampleCollection}

\* filter[price][op]=v in the query string
OrderRequests ==
  {[query |-> FilterQuery(<<[field |-> PriceName, op |-> op, value |-> v]>>),
    allowedFilters |-> Undefined, allowedIncludes |-> Undefined] :
     op \in OrderOperators, v \in {Hundred, Fifty}}

\* the plan parsed from a request, or a filter map that a caller passes with a number operand
OrderSources ==
  {[request |-> r, options |-> getAutoOptions(NoOptions, r)] : r \in OrderRequests}
  \cup {[request |-> NoRequest,
         options |-> With(NoOptions, "filter", <<[k |-> PriceName, v |-> Nested(op, Num(100))]>>)] :
          op \in OrderOperators}

InitCompare ==
  /\ pc = "start"
  /\ registry = NoRegistry
  /\ serializer = NoSerializer
  /\ \E items \in ComparedCollections : data = Arr(items)
  /\ \E s \in OrderSources : request = s.request /\ options = s.options
  /\ result = NoResult

FilterByOrder ==
  /\ pc = "start"
  /\ pc' = "compared"
  /\ result' = applyFiltering(data.v, options.filter)
  /\ UNCHANGED <<request, registry, serializer, data, options>>

NextCompare == FilterByOrder

SpecCompare == InitCompare /\ [][NextCompare]_vars

\* the operator and the operand of the filter entry on price
ComparedOperator == OGet(options.filter, PriceName).v[1].k
ComparedOperand == OGet(options.filter, PriceName).v[1].v

\* the number a price or an operand stands for: <<n>>, or <<>> when it is not a number
NumberOf(x) ==
  CASE x.t = "num" -> <<x.v>>
    [] x.t = "str" /\ AllDigits(x.v) -> <<DigitsPrefixValue(x.v, 0)>>
    [] x.t = "null" -> <<0>>
    [] OTHER -> <<>>

\* native ordering: two strings by code units, anything else by the numbers they stand for
Before(a, b) ==
  IF a.t = "str" /\ b.t = "str" THEN LexLess(a.v, b.v)
  ELSE NumberOf(a) # <<>> /\ NumberOf(b) # <<>> /\ NumberOf(a)[1] < NumberOf(b)[1]

Same(a, b) ==
  IF a.t = "str" /\ b.t = "str" THEN a.v = b.v
  ELSE NumberOf(a) # <<>> /\ NumberOf(b) # <<>> /\ NumberOf(a)[1] = NumberOf(b)[1]

InOrder(op, a, b) ==
  CASE op = GtWord -> Before(b, a)
    [] op = GteWord -> Before(b, a) \/ Same(a, b)
    [] op = LtWord -> Before(a, b)
    [] op = LteWord -> Before(a, b) \/ Same(a, b)

PriceInOrder(item) == InOrder(ComparedOperator, Prop(item, PriceName), ComparedOperand)

PriceInOrderOrAbsent(item) == Prop(item, PriceName) = Undefined \/ PriceInOrder(item)

\* C11 as stated: the result is exactly the items whose price is in the operator's order
\* with the operand
C11_Original ==
  pc = "compared" => ~IsThrown(result) /\ result.v = SelectSeq(data.v, PriceInOrder)

\* C11: for op in {gt, gte, lt, lte}, filtering with filter[f][op]=v returns exactly the items
\* whose f value is >, >=, <, <= v under native ordering, together with the items on which f
\* is undefined
C11_OrderOperators ==
  pc = "compared" => ~IsThrown(result) /\ result.v = SelectSeq(data.v, PriceInOrderOrAbsent)

\* prices 10, 50, 100, 150, 200 with filter[price][gte]=100 give the items 100, 150, 200
C11_Witness ==
  /\ pc = "compared"
  /\ data.v = ExampleCollection
  /\ request.query = <<[k |-> FilterPrefix \o <<"[">> \o PriceName \o <<"]", "[">> \o GteWord \o <<"]">>,
                       v |-> Str(Hundred)]>>
  /\ result.v = SubSeq(ExampleCollection, 3, 5)

\* ---------------------------------------------------------------------------
\* SpecMember: a filter with the in or nin operator, parsed from the query string with
\* the operand as one comma-joined value or as a repeated (multi-valued) parameter
\* ---------------------------------------------------------------------------

\* longest collection and longest operand list of a membership filter
MaxMembers == 2

MemberOperators == {InWord, NinWord}

\* status values: strings, a number, or no status at all
MemberStatuses == Having(StatusName, {Word("a"), Word("d"), Num(1)})

MemberCollections ==
  {[i \in 1..Len(parts) |-> Obj(IdName :> Num(i) @@ parts[i])] :
     parts \in SeqsOf(MemberStatuses, 0, MaxMembers)}

MemberLists == SeqsOf({<<"a">>, <<"b">>, <<"1">>}, 1, MaxMembers)

\* the query value of filter[status][op]: a,b as one string, or the list of a repeated parameter
MemberOperands(l) == {Str(Join(l, ",")), Arr([i \in 1..Len(l) |-> Str(l[i])])}

MemberRequests ==
  {[query |-> <<[k |-> FilterParamKey([field |-> StatusName, op |-> op]), v |-> v]>>,
    allowedFilters |-> Undefined, allowedIncludes |-> Undefined] :
     op \in MemberOperators, v \in UNION {MemberOperands(l) : l \in MemberLists}}

InitMember ==
  /\ pc = "start"
  /\ registry = NoRegistry
  /\ serializer = NoSerializer
  /\ \E items \in MemberCollections : data = Arr(items)
  /\ request \in MemberRequests
  /\ options = getAutoOptions(NoOptions, request)
  /\ result = NoResult

FilterByMembership ==
  /\ pc = "start"
  /\ pc' = "selected"
  /\ result' = applyFiltering(data.v, options.filter)
  /\ UNCHANGED <<request, registry, serializer, data, options>>

NextMember == FilterByMembership

SpecMember == InitMember /\ [][NextMember]_vars



\* the set {a, b, c} that the parameter names, whichever way the operand is written
NamedMembers ==
  IF request.query[1].v.t = "array"
  THEN {request.query[1].v.v[i].v : i \in 1..Len(request.query[1].v.v)}
  ELSE Elements(Split(request.query[1].v.v, ","))

IsInFilter == request.query[1].k = FilterParamKey([field |-> StatusName, op |-> InWord])

StatusNamed(item) == ToStr(Prop(item, StatusName)) \in NamedMembers

\* an item without the field passes every filter; among the others in keeps the members
MemberExpected(item) ==
  \/ Prop(item, StatusName) = Undefined
  \/ (IF IsInFilter THEN StatusNamed(item) ELSE ~StatusNamed(item))

\* C12: a filter parsed from filter[f][in]=a,b,c keeps exactly the items whose f value, as a
\* string, is a member of {a, b, c}, nin keeps the complement, and the result is the same for
\* a list operand and for a comma-joined string operand (items on which f is undefined pass
\* every filter and are not what the claim is about)
C12_Original ==
  pc = "selected" => ~IsThrown(result) /\ result.v = SelectSeq(data.v, MemberExpected)

\* ---------------------------------------------------------------------------
\* SpecSort: applySorting with the sort list parsed from the sort parameter
\* ---------------------------------------------------------------------------

\* longest collection that is sorted
MaxSorted == 3

CreatedAtName == <<"c", "r", "e", "a", "t", "e", "d", "_", "a", "t">>

\* the comparator orders the items consistently: it is antisymmetric and its "equal" and
\* "smaller" are transitive
ConsistentComparator(items, sort) ==
  /\ \A i, j \in 1..Len(items) :
       (compareBy(sort, items[i], items[j]) < 0) = (compareBy(sort, items[j], items[i]) > 0)
  /\ \A i, j, k \in 1..Len(items) :
       /\ (compareBy(sort, items[i], items[j]) = 0 /\ compareBy(sort, items[j], items[k]) = 0)
            => compareBy(sort, items[i], items[k]) = 0
       /\ (compareBy(sort, items[i], items[j]) < 0 /\ compareBy(sort, items[j], items[k]) < 0)
            => compareBy(sort, items[i], items[k]) < 0

\* the arrays [...data].sort(comparator) can return: the stable order for a consistent
\* comparator; for any other comparator the order is implementation-defined
sortOutcomes(items, sort) ==
  IF ConsistentComparator(items, sort) THEN {applySorting(items, sort)}
  ELSE {[i \in 1..Len(items) |-> items[p[i]]] : p \in Permutations(1..Len(items))}

\* records with a title and, on some of them, a creation time
SortedParts ==
  {c @@ t : c \in Having(CreatedAtName, {Num(1), Num(2)}),
            t \in {TitleName :> Word("a"), TitleName :> Word("b")}}

SortedCollections ==
  {[i \in 1..Len(parts) |-> Obj(IdName :> Num(i) @@ parts[i])] :
     parts \in SeqsOf(SortedParts, 0, MaxSorted)}

SortParameters ==
  {<<"-">> \o CreatedAtName \o <<",">> \o TitleName,
   CreatedAtName,
   TitleName \o <<",", " ", "-">> \o CreatedAtName,
   <<"-">> \o TitleName}

SortRequests ==
  {[query |-> <<[k |-> SortKey, v |-> Str(s)]>>, allowedFilters |-> Undefined, allowedIncludes |-> Undefined] :
     s \in SortParameters}

InitSort ==
  /\ pc = "start"
  /\ registry = NoRegistry
  /\ serializer = NoSerializer
  /\ \E items \in SortedCollections : data = Arr(items)
  /\ request \in SortRequests
  /\ options = getAutoOptions(NoOptions, request)
  /\ result = NoResult

Sort ==
  /\ pc = "start"
  /\ pc' = "sorted"
  /\ result' \in sortOutcomes(data.v, options.sort)
  /\ UNCHANGED <<request, registry, serializer, data, options>>

NextSort == Sort

SpecSort == InitSort /\ [][NextSort]_vars

\* the two values are ordered by < or by >
Differ(x, y) == Less(x, y) \/ Greater(x, y)

\* a may stand before b: the first key on which they differ has a first in its direction;
\* with no such key a stood before b in the collection (the id is the original position)
RECURSIVE MayPrecede(_, _, _)
MayPrecede(sort, a, b) ==
  IF sort = <<>> THEN Prop(a, IdName).v < Prop(b, IdName).v
  ELSE IF Differ(Prop(a, Head(sort).field), Prop(b, Head(sort).field))
       THEN (IF Head(sort).direction = "asc"
             THEN Less(Prop(a, Head(sort).field), Prop(b, Head(sort).field))
             ELSE Greater(Prop(a, Head(sort).field), Prop(b, Head(sort).field)))
  ELSE MayPrecede(Tail(sort), a, b)

\* C13: applySorting orders the items by the keys in the order given: the first key on which
\* two items differ decides their order, ascending or descending as the key was written, and
\* items equal on every key keep their original relative order
C13_Original ==
  pc = "sorted" =>
    /\ Len(result) = Len(data.v)
    /\ Elements(result) = Elements(data.v)
    /\ \A p, q \in 1..Len(result) : p < q => MayPrecede(options.sort, result[p], result[q])

\* every item has every sort field
AllFieldsPresent ==
  \A i \in 1..Len(data.v) : \A k \in 1..Len(options.sort) :
    Prop(data.v[i], options.sort[k].field) # Undefined

\* ---------------------------------------------------------------------------
\* SpecCursor: applyPagination for a request with page[after] (and page[size]), the
\* pagination request parsed from the query string
\* ---------------------------------------------------------------------------

\* longest generated collection that is paginated by cursor
MaxCursorTotal == 4
\* largest generated page size
MaxCursorSize == 2

\* the README request: page[after]=article:123&page[size]=15 over 48 articles
ExampleAfterId == 123
ExampleCursorSize == 15
\* the page size of a cursor request without page[size]
DefaultCursorSize == 10

\* 48 articles with consecutive ids, id 123 at index 9
ExampleCursorCollection == [i \in 1..ExampleTotal |-> Entity(ExampleAfterId - 10 + i)]

WordIds == <<Word("a"), Word("b"), Word("c")>>

\* collections with pairwise distinct ids: ascending, descending, string ids, the example
CursorCollections ==
  {Collection(n) : n \in 0..MaxCursorTotal}
  \cup {[i \in 1..n |-> Entity(n + 1 - i)] : n \in 2..MaxCursorTotal}
  \cup {[i \in 1..Len(WordIds) |-> Obj(IdName :> WordIds[i])], ExampleCursorCollection}

CursorTypes == {ArticleType, <<"x">>}

\* identifier parts of a cursor: ids of the collections and one id that no item has
CursorIds ==
  {NatToStr(i) : i \in 1..(MaxCursorTotal + 1)} \cup {<<"b">>, NatToStr(ExampleAfterId)}

CursorSizes == {<<>>} \cup {<<NatToStr(s)>> : s \in 1..MaxCursorSize} \cup {<<NatToStr(ExampleCursorSize)>>}

SizeQuery(size) == IF size = <<>> THEN <<>> ELSE <<[k |-> PageSizeKey, v |-> Str(size[1])]>>

CursorToken(type, id) == type \o <<":">> \o id

AfterRequests ==
  {[query |-> <<[k |-> PageAfterKey, v |-> Str(CursorToken(t, id))]>> \o SizeQuery(size),
    allowedFilters |-> Undefined, allowedIncludes |-> Undefined] :
     t \in CursorTypes, id \in CursorIds, size \in CursorSizes}

InitCursor ==
  /\ pc = "start"
  /\ registry = NoRegistry
  /\ serializer = NoSerializer
  /\ data \in CursorCollections
  /\ request \in AfterRequests
  /\ options = getAutoOptions(NoOptions, request)
  /\ result = NoResult

PaginateByCursor ==
  /\ pc = "start"
  /\ pc' = "cursored"
  /\ result' = applyPagination(data, options.pagination)
  /\ UNCHANGED <<request, registry, serializer, data, options>>

NextCursor == PaginateByCursor

SpecCursor == InitCursor /\ [][NextCursor]_vars

\* the identifier part of the page[after] token of the request
AfterIdentifier ==
  CHOOSE id \in CursorIds : \E t \in CursorTypes : request.query[1].v = Str(CursorToken(t, id))

\* the requested size n, 10 when page[size] is not given
CursorSize ==
  IF Len(request.query) = 1 THEN DefaultCursorSize
  ELSE CHOOSE n \in 1..ExampleCursorSize : request.query[2].v = Str(NatToStr(n))

\* 1-based positions of the items that have the identifier of the cursor
AfterPositions == {i \in 1..Len(data) : ToStr(Prop(data[i], IdName)) = AfterIdentifier}

\* 1-based position before the first returned item: the position of the cursor item, or 0
CursorStart == IF AfterPositions = {} THEN 0 ELSE CHOOSE i \in AfterPositions : \A j \in AfterPositions : i <= j

Typed(record, type) == Obj(TypeName :> Str(type) @@ record.v)

LinkedCollections ==
  CursorCollections
  \cup {[i \in 1..n |-> Typed(Entity(i), ArticleType)] : n \in 1..MaxCursorTotal}

InitLinks ==
  /\ pc = "start"
  /\ registry = NoRegistry
  /\ serializer = "ArticleSerializer"
  /\ data \in LinkedCollections
  /\ request \in AfterRequests
  /\ options = getAutoOptions(NoOptions, request)
  /\ result = NoResult

PaginateWithLinks ==
  /\ pc = "start"
  /\ pc' = "linked"
  /\ result' = applyPagination(data, options.pagination)
  /\ UNCHANGED <<request, registry, serializer, data, options>>

NextLinks == PaginateWithLinks

SpecLinks == InitLinks /\ [][NextLinks]_vars

\* the value a link gives to a query parameter, <<>> when the link does not set it
LinkParameter(link, key) ==
  IF \E i \in 1..Len(link) : link[i][1] = key
  THEN link[CHOOSE i \in 1..Len(link) : link[i][1] = key][2]
  ELSE <<>>

\* <type>:<id> for a record of the serialized collection
CursorFor(record) == CursorToken(Metadata(serializer).type, ToStr(Prop(record, IdName)))

HasNext == "next" \in DOMAIN result.links
HasPrev == "prev" \in DOMAIN result.links

\* C15: for a non-empty cursor page that starts at index k with size n over N items, links.next
\* is present iff k + n < N and carries page[after]=<type>:<id of the last returned item>;
\* links.prev is present iff k > 0 and carries a page[before] cursor of an item before index k
C15_Original ==
  (pc = "linked" /\ result.data # <<>>) =>
    /\ HasNext <=> (CursorStart + CursorSize < Len(data))
    /\ HasNext => LinkParameter(result.links.next, PageAfterKey) = CursorFor(result.data[Len(result.data)])
    /\ HasPrev <=> (CursorStart > 0)
    /\ HasPrev => \E j \in 1..CursorStart :
                    LinkParameter(result.links.prev, PageBeforeKey) = CursorFor(data[j])

\* ---------------------------------------------------------------------------
\* SpecMalformed: getAutoOptions on query strings whose parameters are well-formed,
\* multi-valued, non-numeric where a number is expected, or have malformed bracket syntax
\* ---------------------------------------------------------------------------

\* largest number of parameters of a generated query string
MaxQueryParams == 2

Param(key, value) == [k |-> key, v |-> value]

ArticleFieldsKey == FieldsPrefix \o ArticleType \o <<"]">>

WellFormedParams ==
  {Param(IncludeKey, Str(AuthorName)),
   Param(SortKey, Str(<<"-">> \o IdName)),
   Param(ArticleFieldsKey, Str(TitleName)),
   Param(PageNumberKey, Str(<<"2">>)),
   Param(PageSizeKey, Str(<<"1">>)),
   Param(FilterParamKey([field |-> StatusName, op |-> <<>>]), Str(<<"o", "n">>))}

\* a repeated parameter reaches the handler as the list of its values
MultiValued == Arr(<<Str(AuthorName), Str(TitleName)>>)

MalformedParams ==
  {Param(IncludeKey, MultiValued),
   Param(SortKey, MultiValued),
   Param(ArticleFieldsKey, MultiValued),
   Param(PageNumberKey, Str(<<"a", "b", "c">>)),
   Param(PageSizeKey, Str(<<"x">>)),
   Param(FilterPrefix \o <<"[">> \o StatusName, Str(<<"o", "n">>)),
   Param(PagePrefix \o <<"]">> \o SizeWord \o <<"[">>, Str(<<"1">>)),
   Param(FieldsPrefix \o ArticleType, Str(TitleName)),
   Param(FilterPrefix \o <<"[", "a", "]", "[", "b", "]", "[", "c", "]">>, Str(<<"1">>)),
   Param(BogusName, Str(<<"1">>))}

\* query strings: each key at most once
MalformedQueries ==
  {q \in SeqsOf(WellFormedParams \cup MalformedParams, 1, MaxQueryParams) :
     \A i, j \in 1..Len(q) : i # j => q[i].k # q[j].k}

InitMalformed ==
  /\ pc = "start"
  /\ registry = NoRegistry
  /\ serializer = NoSerializer
  /\ data = NoData
  /\ \E q \in MalformedQueries :
       request = [query |-> q, allowedFilters |-> Undefined, allowedIncludes |-> Undefined]
  /\ options = NoOptions
  /\ result = NoResult

ParseMalformed ==
  /\ pc = "start"
  /\ pc' = "planned"
  /\ options' = getAutoOptions(NoOptions, request)
  /\ UNCHANGED <<request, registry, serializer, data, result>>

NextMalformed == ParseMalformed

SpecMalformed == InitMalformed /\ [][NextMalformed]_vars

WellFormed(param) == param \in WellFormedParams

\* the request without its malformed parameters
WithoutMalformed == [request EXCEPT !.query = SelectSeq(request.query, WellFormed)]

\* C16: for every query-parameter mapping getAutoOptions returns a plan without throwing, and
\* the plan is the same as if the parameters that match no recognized pattern or have a
\* malformed value were absent
C16_Original ==
  pc = "planned" =>
    /\ ~IsThrown(options)
    /\ options = getAutoOptions(NoOptions, WithoutMalformed)

\* ---------------------------------------------------------------------------
\* SpecFailure: serialize(serializer, data) of records some of which cannot be projected:
\* no usable id, a serializer class without metadata, a related object whose type or id
\* cannot be determined, in the primary data or in resources reached by include
\* ---------------------------------------------------------------------------

\* longest collection handed to serialize
MaxFailing == 2

UserWithoutId == Obj(NameName :> Word("n") @@ ConstructorName :> Str(UserClass))

FailingAuthors ==
  {User(1, "n", <<>>), UserWithoutId, User(1, "n", ProfileName :> Profile(1)),
   User(1, "n", ProfileName :> Obj(BioName :> Word("b")))}

FailingComments == {Arr(<<Comment(1, <<>>)>>), Arr(<<Comment(1, <<>>), Obj(TextName :> Word("c"))>>)}

FailingArticles ==
  {Obj(i @@ a @@ c @@ p @@ TitleName :> Word("t")) :
     i \in Having(IdName, {Num(1), Num(0)}), a \in Having(AuthorName, FailingAuthors),
     c \in Having(CommentsName, FailingComments), p \in Having(PublicName, {Bool(TRUE)})}

\* notes: the owner relationship declares no type, subject is typed by a class map, targets
\* by the class name
FailingNotes ==
  {Obj(IdName :> Num(1) @@ o @@ s @@ t) :
     o \in Having(OwnerName, {User(1, "n", <<>>)}),
     s \in Having(SubjectName, {User(1, "n", <<>>), Profile(1), UserWithoutId}),
     t \in Having(TargetsName, {Arr(<<Profile(1), Obj(BioName :> Word("b"))>>)})}

\* a record that every serializer projects
SoundRecord == Obj(IdName :> Num(9) @@ TitleName :> Word("t"))

\* one record, or a collection with the record at any position among sound records
Shapes(record) ==
  {record}
  \cup {Arr([i \in 1..n |-> IF i = k THEN record ELSE SoundRecord]) : n \in 1..MaxFailing, k \in 1..MaxFailing}

FailurePaths == {AuthorName, CommentsName, Dot(AuthorName, ProfileName)}

FailureRequests ==
  {NoRequest}
  \cup {[query |-> IncludeQuery(<<p>>), allowedFilters |-> Undefined, allowedIncludes |-> Undefined] :
          p \in FailurePaths}

InitFailure ==
  /\ pc = "start"
  /\ registry = NoRegistry
  /\ options = NoOptions
  /\ result = NoResult
  /\ request \in FailureRequests
  /\ \/ /\ serializer = "ArticleSerializer"
        /\ data \in UNION {Shapes(a) : a \in FailingArticles}
     \/ /\ serializer = "NoteSerializer"
        /\ data \in UNION {Shapes(n) : n \in FailingNotes}
     \/ /\ serializer = "PlainClass"
        /\ data \in Shapes(SoundRecord)

SerializeFailing ==
  /\ pc = "start"
  /\ pc' = "finished"
  /\ registry' = registerByClassName(registry, serializer)
  /\ result' = serialize(registry', serializer, data, options, request)
  /\ UNCHANGED <<request, serializer, data, options>>

NextFailure == SerializeFailing

SpecFailure == InitFailure /\ [][NextFailure]_vars

Missing(x) == x \in {Undefined, Null}

\* the related objects that the relationship links: the elements of a hasMany list, the one
\* object of a to-one relationship
LinkedObjects(rel, item) ==
  LET related == Prop(item, rel.property) IN
  IF Missing(related) THEN {}
  ELSE IF rel.type = "hasMany"
       THEN (IF related.t = "array" THEN {x \in Elements(related.v) : Truthy(x)} ELSE {})
       ELSE (IF Truthy(related) THEN {related} ELSE {})

\* the relationship declares a type, or takes it from the class name, or its class map has
\* an entry for the class of the related object
TypeDeterminable(rel, related) ==
  \/ Truthy(rel.resourceType)
  \/ rel.polymorphic = Bool(TRUE)
  \/ /\ rel.polymorphic.t = "object"
     /\ related.t = "object"
     /\ ConstructorName \in DOMAIN related.v
     /\ \E i \in 1..Len(rel.polymorphic.v) : Str(rel.polymorphic.v[i].k) = related.v[ConstructorName]

LinkageDeterminable(rel, related) ==
  TypeDeterminable(rel, related) /\ ~Missing(Prop(related, IdName))

RelationshipsOf(class) == Elements(Metadata(class).relationships)

VisibleRelationship(rel, item) ==
  rel.condition = "none" \/ Truthy(Prop(item, PublicName))

\* projecting the record with the serializer class fails
ProjectionFails(class, item) ==
  \/ ~Metadata(class).hasOptions
  \/ ~Truthy(Prop(item, IdName))
  \/ \E rel \in RelationshipsOf(class) :
       /\ VisibleRelationship(rel, item)
       /\ \E related \in LinkedObjects(rel, item) : ~LinkageDeterminable(rel, related)

\* the include path of the request, <<>> when it has none
RequestedPath ==
  IF request.query = <<>> THEN <<>>
  ELSE CHOOSE p \in FailurePaths : request.query = IncludeQuery(<<p>>)

PrimaryItems == {x \in Roots : ~Missing(x)}

\* related objects of the requested relationship of a record, visible or not
IncludedUnder(class, item, name) ==
  {<<rel.serializer, x>> :
     rel \in {r \in RelationshipsOf(class) : r.name = name /\ r.serializer # "none"},
     x \in {y \in (IF Prop(item, name).t = "array" THEN Elements(Prop(item, name).v) ELSE {Prop(item, name)}) :
              Truthy(y)}}

FirstLevel ==
  IF RequestedPath = <<>> THEN {}
  ELSE UNION {IncludedUnder(serializer, x, Split(RequestedPath, ".")[1]) : x \in PrimaryItems}

SecondLevel ==
  IF Len(Split(RequestedPath, ".")) < 2 THEN {}
  ELSE UNION {IncludedUnder(e[1], e[2], Split(RequestedPath, ".")[2]) : e \in FirstLevel}

\* the projection of a primary record or of a resource reached by the include path fails
SomeProjectionFails ==
  \/ \E x \in PrimaryItems : ProjectionFails(serializer, x)
  \/ \E e \in FirstLevel \cup SecondLevel : ProjectionFails(e[1], e[2])

PrimaryResources == IF data.t = "array" THEN result.v.data.v ELSE <<result.v.data>>
PrimaryRecords == IF data.t = "array" THEN data.v ELSE <<data>>

VisibleRelationshipNames(class, item) ==
  {rel.name : rel \in {r \in RelationshipsOf(class) : VisibleRelationship(r, item)}}

\* the resource object carries the record's id and type and every visible relationship
CompleteResource(resource, class, item) ==
  /\ resource.id = Str(ToStr(Prop(item, IdName)))
  /\ resource.type = Metadata(class).type
  /\ VisibleRelationshipNames(class, item) =
       (IF "relationships" \in DOMAIN resource THEN Elements(OKeys(resource.relationships)) ELSE {})

\* the document has a resource object for every primary record, in order, and an included
\* resource for every related object reached by the include path
CompleteDocument ==
  /\ Len(PrimaryResources) = Len(PrimaryRecords)
  /\ \A i \in 1..Len(PrimaryRecords) : CompleteResource(PrimaryResources[i], serializer, PrimaryRecords[i])
  /\ \A e \in FirstLevel \cup SecondLevel :
       \E r \in Elements(result.v.included) : CompleteResource(r, e[1], e[2])

\* C17: if projecting a primary item or an included resource fails (no derivable identifier,
\* no serializer metadata, a relationship type or identifier that cannot be determined) the
\* serialize call throws; a document that is returned misses no item and no relationship
C17_FailureAborts ==
  pc = "finished" =>
    /\ SomeProjectionFails => IsThrown(result)
    /\ ~IsThrown(result) => CompleteDocument

\* an included author cannot be projected (its profile has no id) while the article can
C17_Witness ==
  /\ pc = "finished"
  /\ data.t = "array"
  /\ Len(data.v) = 2
  /\ \A x \in PrimaryItems : ~ProjectionFails(serializer, x)
  /\ \E e \in FirstLevel : ProjectionFails(e[1], e[2])
  /\ IsThrown(result)

\* ---------------------------------------------------------------------------
\* SpecResponse: JSONAPIResponseInterceptor maps the value a handler returned, some of
\* whose records cannot be projected, to the response
\* ---------------------------------------------------------------------------

InitResponse ==
  /\ pc = "start"
  /\ registry = NoRegistry
  /\ options = NoOptions
  /\ result = NoResult
  /\ request \in FailureRequests
  /\ \/ /\ serializer = "ArticleSerializer"
        /\ data \in UNION {Shapes(a) : a \in FailingArticles}
     \/ /\ serializer = "PlainClass"
        /\ data \in Shapes(SoundRecord)

\* the map() of intercept: processResponse, whose value becomes the response
Intercept ==
  /\ pc = "start"
  /\ pc' = "intercepted"
  /\ registry' = registerByClassName(registry, serializer)
  /\ result' = processResponse(registry', serializer, data, request)
  /\ UNCHANGED <<request, serializer, data, options>>

NextResponse == Intercept

SpecResponse == InitResponse /\ [][NextResponse]_vars

\* the response is the value the handler returned, as it was
RawResponse == result = Ok(data)

\* the response is a document with one resource object per record of the handler's value
DocumentResponse ==
  /\ ~IsThrown(result)
  /\ DOMAIN result.v \subseteq {"data", "included", "meta", "links"}
  /\ Len(PrimaryResources) = Len(PrimaryRecords)
  /\ \A i \in 1..Len(PrimaryRecords) : CompleteResource(PrimaryResources[i], serializer, PrimaryRecords[i])

\* C18 as stated: a failed serialization reaches the host as an error and the raw data is
\* never the response
C18_Original ==
  (pc = "intercepted" /\ SomeProjectionFails) => (IsThrown(result) /\ ~RawResponse)

\* C18: when serialization of a handler's result fails inside JSONAPIResponseInterceptor no
\* error reaches the host: the response is the raw handler data, unchanged; when it succeeds
\* the response is the document
C18_RawOnFailure ==
  pc = "intercepted" =>
    /\ SomeProjectionFails => RawResponse
    /\ ~SomeProjectionFails => DocumentResponse

\* a collection whose second record has no usable id goes out as it came
C18_Witness ==
  /\ pc = "intercepted"
  /\ data.t = "array"
  /\ Len(data.v) = 2
  /\ ~ProjectionFails(serializer, data.v[1])
  /\ ~Truthy(Prop(data.v[2], IdName))
  /\ result = Ok(data)

\* ---------------------------------------------------------------------------
\* SpecLinkage: the linkage of one related object, then the relationships and the resource
\* object of the record that holds it
\* ---------------------------------------------------------------------------

InitLinkage ==
  /\ pc = "start"
  /\ registry = NoRegistry
  /\ options = NoOptions
  /\ request = NoRequest
  /\ result = NoResult
  /\ \/ /\ serializer = "ArticleSerializer"
        /\ data \in FailingArticles
     \/ /\ serializer = "NoteSerializer"
        /\ data \in FailingNotes

\* buildRelationshipData(relationship, related) for one related object of the record
BuildRelationshipData ==
  /\ pc = "start"
  /\ pc' = "built"
  /\ \E rel \in RelationshipsOf(serializer) :
       \E related \in LinkedObjects(rel, data) :
         result' = [relationship |-> rel, related |-> related, data |-> buildRelationshipData(rel, related)]
  /\ UNCHANGED <<request, registry, serializer, data, options>>

GetRelationships ==
  /\ pc \in {"start", "built"}
  /\ pc' = "related"
  /\ result' = getRelationships(serializer, data, options)
  /\ UNCHANGED <<request, registry, serializer, data, options>>

SerializeHolder ==
  /\ pc = "related"
  /\ pc' = "projected"
  /\ result' = serializeItem(serializer, data, options)
  /\ UNCHANGED <<request, registry, serializer, data, options>>

NextLinkage == BuildRelationshipData \/ GetRelationships \/ SerializeHolder

SpecLinkage == InitLinkage /\ [][NextLinkage]_vars

\* the identifier comes from the relationship's id property when the object has it, else
\* from id
IdDeterminable(rel, related) ==
  \/ Truthy(rel.idMethodName) /\ Truthy(Prop(related, rel.idMethodName.v))
  \/ ~Missing(Prop(related, IdName))

Undeterminable(rel, related) == ~TypeDeterminable(rel, related) \/ ~IdDeterminable(rel, related)

\* a relationship that getRelationships processes links an object without type or id
SomeUndeterminable ==
  \E rel \in RelationshipsOf(serializer) :
    /\ VisibleRelationship(rel, data)
    /\ \E related \in LinkedObjects(rel, data) : Undeterminable(rel, related)

IsLinkage(x) == x.t = "linkage" /\ x.v.type # <<>>

\* C19: buildRelationshipData raises an error for a related object whose target type or
\* identifier cannot be determined and getRelationships and serializeItem pass an error on to
\* their caller: no linkage, no relationships map and no resource object comes back; for
\* every other related object the linkage comes back and getRelationships has an entry for
\* each relationship it processed
C19_UndeterminableRaises ==
  /\ pc = "built" =>
       /\ Undeterminable(result.relationship, result.related) => IsThrown(result.data)
       /\ ~Undeterminable(result.relationship, result.related) => IsLinkage(result.data)
  /\ pc = "related" =>
       /\ SomeUndeterminable => IsThrown(result)
       /\ ~SomeUndeterminable =>
            /\ ~IsThrown(result)
            /\ \A rel \in RelationshipsOf(serializer) :
                 VisibleRelationship(rel, data) => OHas(result.v, rel.name)
  /\ pc = "projected" => (SomeUndeterminable => IsThrown(result))

\* a note whose subject is of a class the relationship's map does not name: the linkage, the
\* relationships and the resource object are all refused
C19_Witness ==
  /\ pc = "projected"
  /\ serializer = "NoteSerializer"
  /\ Truthy(Prop(data, IdName))
  /\ \E rel \in RelationshipsOf(serializer) :
       \E related \in LinkedObjects(rel, data) :
         /\ ~TypeDeterminable(rel, related)
         /\ IdDeterminable(rel, related)
         /\ IsThrown(buildRelationshipData(rel, related))
  /\ IsThrown(result)

\* ---------------------------------------------------------------------------
\* SpecUnresolved: serialize with an include path whose related objects may have no
\* serializer: none declared on the relationship, none registered for their class
\* ---------------------------------------------------------------------------

UnresolvedPaths == {OwnerName, SubjectName, TargetsName, AuthorName, Dot(CommentsName, AuthorName)}

UnresolvedRequests ==
  {[query |-> IncludeQuery(<<p>>), allowedFilters |-> Undefined, allowedIncludes |-> Undefined] :
     p \in UnresolvedPaths}

InitUnresolved ==
  /\ pc = "start"
  /\ registry \in Registries
  /\ options = NoOptions
  /\ result = NoResult
  /\ request \in UnresolvedRequests
  /\ \/ /\ serializer = "NoteSerializer"
        /\ data \in UNION {Shapes(n) : n \in FailingNotes}
     \/ /\ serializer = "ArticleSerializer"
        /\ data \in {a \in GraphArticles : Prop(a, IdName) = Num(1)}

SerializeUnresolved ==
  /\ pc = "start"
  /\ pc' = "resolved"
  /\ registry' = registerByClassName(registry, serializer)
  /\ result' = serialize(registry', serializer, data, options, request)
  /\ UNCHANGED <<request, serializer, data, options>>

NextUnresolved == SerializeUnresolved

SpecUnresolved == InitUnresolved /\ [][NextUnresolved]_vars

RequestedInclude == CHOOSE p \in UnresolvedPaths : request.query = IncludeQuery(<<p>>)

\* the related objects of a record under the relationship called name, each with its
\* relationship
ReachedUnder(class, item, name) ==
  {<<rel, x>> :
     rel \in {r \in RelationshipsOf(class) : r.name = name},
     x \in {y \in (IF Missing(Prop(item, name)) THEN {}
                   ELSE IF Prop(item, name).t = "array" THEN Elements(Prop(item, name).v)
                   ELSE {Prop(item, name)}) : Truthy(y)}}

ReachedFirst ==
  UNION {ReachedUnder(serializer, x, Split(RequestedInclude, ".")[1]) : x \in PrimaryItems}

ReachedSecond ==
  IF Len(Split(RequestedInclude, ".")) < 2 THEN {}
  ELSE UNION {ReachedUnder(relatedSerializerOf(registry, e[1], e[2]), e[2], Split(RequestedInclude, ".")[2]) :
                e \in {f \in ReachedFirst : relatedSerializerOf(registry, f[1], f[2]) # "none"}}

\* a related object on the requested path has no serializer: none on the relationship, none
\* in the registry for its class, none through the relationship's class map
SomeUnresolved ==
  \E e \in ReachedFirst \cup ReachedSecond : relatedSerializerOf(registry, e[1], e[2]) = "none"

\* C20: during include resolution, if no serializer can be resolved for a related object
\* reached along a requested include path, the serialization fails with an error instead of
\* completing with that resource left out of included
C20_Original ==
  (pc = "resolved" /\ SomeUnresolved) => IsThrown(result)

\* ---------------------------------------------------------------------------
\* SpecRegistry: register, registerByClassName, serialize and find calls on one
\* SerializerRegistry; data is the list of the registrations made so far
\* ---------------------------------------------------------------------------

\* most calls made on the registry
MaxCalls == 3

LegacyType == <<"l", "e", "g", "a", "c", "y">>

RegistryTypes == {ArticleType, UserType, LegacyType}
RegistryClasses == {"ArticleSerializer", "UserSerializer", "LegacySerializer", "PlainClass"}

Registration(type, serializerClass) == [type |-> type, serializer |-> serializerClass]

InitRegistry ==
  /\ pc = "start"
  /\ registry = NoRegistry
  /\ request = NoRequest
  /\ options = NoOptions
  /\ serializer = "none"
  /\ data = <<>>
  /\ result = NoResult

RegisterCall ==
  /\ Len(data) < MaxCalls
  /\ \E type \in RegistryTypes, s \in RegistryClasses :
       /\ registry' = register(registry, type, s)
       /\ data' = Append(data, Registration(type, s))
       /\ serializer' = s
  /\ pc' = "registered"
  /\ UNCHANGED <<request, options, result>>

RegisterByClassNameCall ==
  /\ Len(data) < MaxCalls
  /\ \E s \in RegistryClasses :
       /\ registry' = registerByClassName(registry, s)
       /\ data' = Append(data, Registration(getResourceTypeFromSerializer(s), s))
       /\ serializer' = s
  /\ pc' = "registered"
  /\ UNCHANGED <<request, options, result>>

\* serialize(serializer, record): its first statement registers the serializer
SerializeCall ==
  /\ Len(data) < MaxCalls
  /\ \E s \in RegistryClasses, record \in {Null, SoundRecord} :
       /\ registry' = registerByClassName(registry, s)
       /\ result' = serialize(registry', s, record, options, request)
       /\ data' = Append(data, Registration(getResourceTypeFromSerializer(s), s))
       /\ serializer' = s
  /\ pc' = "serialized"
  /\ UNCHANGED <<request, options>>

FindCall ==
  /\ pc # "found"
  /\ \E type \in RegistryTypes : result' = [type |-> type, found |-> find(registry, type)]
  /\ pc' = "found"
  /\ UNCHANGED <<request, registry, serializer, data, options>>

NextRegistry == RegisterCall \/ RegisterByClassNameCall \/ SerializeCall \/ FindCall

SpecRegistry == InitRegistry /\ [][NextRegistry]_vars

\* positions of the registrations made under the type name
RegisteredAt(type) == {i \in 1..Len(data) : data[i].type = type}

\* the serializer of the last registration under the type name, "none" when there is none
LastRegistered(type) ==
  IF RegisteredAt(type) = {} THEN "none"
  ELSE data[CHOOSE i \in RegisteredAt(type) : \A j \in RegisteredAt(type) : j <= i].serializer

\* a call registers (the last entry of the list is new) under the type name
Registers(type) == Len(data') = Len(data) + 1 /\ data'[Len(data')].type = type

\* C21: after any sequence of register, registerByClassName and serialize calls, find(t)
\* returns the serializer most recently registered under t (null when there is none); a
\* registration under t leaves find(u) as it was for every other type name u; registering
\* the serializer that is already the entry of its type name leaves the registry unchanged
C21_LastWriterWins ==
  /\ [](\A type \in RegistryTypes : find(registry, type) = LastRegistered(type))
  /\ [](pc = "found" => result.found = LastRegistered(result.type))
  /\ [][\A type \in RegistryTypes \cup {<<>>} :
          Registers(type) =>
            /\ \A other \in RegistryTypes \ {type} : find(registry', other) = find(registry, other)
            /\ (type # <<>> /\ find(registry, type) = data'[Len(data')].serializer) => registry' = registry]_vars

\* two serializers were registered under one type name, one after the other,
\* and find returned the second
C21_Witness ==
  /\ pc = "found"
  /\ Len(data) >= 2
  /\ data[1].type = data[Len(data)].type
  /\ data[1].serializer # data[Len(data)].serializer
  /\ result.type = data[1].type
  /\ result.found = data[Len(data)].serializer
  /\ Len(registry) = 1

\* ---------------------------------------------------------------------------
\* JsonApiExceptionFilter.catch
\* ---------------------------------------------------------------------------

MessageName == <<"m", "e", "s", "s", "a", "g", "e">>
ErrorName == <<"e", "r", "r", "o", "r">>
StatusCodeName == <<"s", "t", "a", "t", "u", "s", "C", "o", "d", "e">>
InternalServerErrorText == <<"I", "n", "t", "e", "r", "n", "a", "l", " ", "S", "e", "r", "v", "e", "r", " ", "E", "r", "r", "o", "r">>
UnexpectedErrorText == <<"A", "n", " ", "u", "n", "e", "x", "p", "e", "c", "t", "e", "d", " ", "e", "r", "r", "o", "r", " ", "o", "c", "c", "u", "r", "r", "e", "d">>
AnErrorOccurredText == <<"A", "n", " ", "e", "r", "r", "o", "r", " ", "o", "c", "c", "u", "r", "r", "e", "d">>
UserNotFoundText == <<"U", "s", "e", "r", " ", "n", "o", "t", " ", "f", "o", "u", "n", "d">>
NotFoundText == <<"N", "o", "t", " ", "F", "o", "u", "n", "d">>
BadRequestText == <<"B", "a", "d", " ", "R", "e", "q", "u", "e", "s", "t">>
ForbiddenText == <<"F", "o", "r", "b", "i", "d", "d", "e", "n">>

\* HttpException.createBody of @nestjs/common as the built-in exceptions call it: no
\* argument gives {message: description, statusCode}, a string or a list gives
\* {message, error: description, statusCode}, an object is the body itself
createBody(argument, description, status) ==
  IF argument \in {Undefined, Null}
  THEN Obj(MessageName :> Str(description) @@ StatusCodeName :> Num(status))
  ELSE IF argument.t \in {"str", "array"}
       THEN Obj(MessageName :> argument @@ ErrorName :> Str(description) @@ StatusCodeName :> Num(status))
       ELSE argument

\* new HttpException(response, status): getResponse() is response, getStatus() is status
HttpException(response, status) ==
  [class |-> "HttpException", status |-> status, response |-> response,
   description |-> <<>>, argument |-> response]

\* a built-in exception such as new NotFoundException(argument)
BuiltInException(status, description, argument) ==
  [class |-> "HttpException", status |-> status, response |-> createBody(argument, description, status),
   description |-> description, argument |-> argument]

\* new JsonApiError(message, status): the response is the error document already
JsonApiError(message, status) ==
  [class |-> "JsonApiError", status |-> status,
   response |-> [errors |-> <<[status |-> Str(NumToStr(status)), title |-> Str(message)]>>],
   description |-> <<>>, argument |-> Str(message)]

\* new Error(message)
PlainError(message) ==
  [class |-> "Error", status |-> 0, response |-> Undefined, description |-> <<>>, argument |-> Str(message)]

\* a thrown value that is no Error
ThrownValue(value) ==
  [class |-> "value", status |-> 0, response |-> Undefined, description |-> <<>>, argument |-> value]

\* response.status(status).json(body)
ErrorResponse(status, body) == [status |-> status, body |-> body]

\* {status, title, ...(detail && {detail})}
ErrorObject(status, title, detail) ==
  IF Truthy(detail) THEN [status |-> Str(NumToStr(status)), title |-> title, detail |-> detail]
  ELSE [status |-> Str(NumToStr(status)), title |-> title]

\* message || 'An error occurred'
messageOf(exceptionResponse) ==
  IF Truthy(Prop(exceptionResponse, MessageName)) THEN Prop(exceptionResponse, MessageName)
  ELSE Str(AnErrorOccurredText)

\* Array.isArray(message) ? message[0] : message
titleOf(message) ==
  IF message.t = "array" THEN (IF message.v = <<>> THEN Undefined ELSE message.v[1]) ELSE message

\* the error object for an HttpException that is no JsonApiError
httpErrorObject(status, exceptionResponse) ==
  IF exceptionResponse.t \in {"object", "array"}
  THEN ErrorObject(status, titleOf(messageOf(exceptionResponse)), Prop(exceptionResponse, ErrorName))
  ELSE [status |-> Str(NumToStr(status)), title |-> exceptionResponse]

catch(exception) ==
  CASE exception.class = "JsonApiError" -> ErrorResponse(exception.status, exception.response)
    [] exception.class = "HttpException" ->
         ErrorResponse(exception.status, [errors |-> <<httpErrorObject(exception.status, exception.response)>>])
    [] exception.class = "Error" ->
         ErrorResponse(500, [errors |-> <<[status |-> Str(NumToStr(500)), title |-> Str(InternalServerErrorText),
                                           detail |-> exception.argument]>>])
    [] OTHER ->
         ErrorResponse(500, [errors |-> <<[status |-> Str(NumToStr(500)), title |-> Str(InternalServerErrorText),
                                           detail |-> Str(UnexpectedErrorText)]>>])

\* ---------------------------------------------------------------------------
\* SpecCatch: one exception reaches JsonApiExceptionFilter
\* ---------------------------------------------------------------------------

\* messages an exception is constructed with
ErrorMessages == {UserNotFoundText, NotFoundText, <<"m">>, <<"n", "o">>}

BuiltIns == {<<400, BadRequestText>>, <<403, ForbiddenText>>, <<404, NotFoundText>>,
             <<500, InternalServerErrorText>>}

BuiltInArguments ==
  {Undefined} \cup {Str(m) : m \in ErrorMessages}
  \cup {Arr(<<Str(m), Str(<<"m">>)>>) : m \in ErrorMessages}
  \cup {Obj(MessageName :> Str(m)) : m \in ErrorMessages}

Exceptions ==
  {BuiltInException(b[1], b[2], a) : b \in BuiltIns, a \in BuiltInArguments}
  \cup {HttpException(Str(m), b[1]) : m \in ErrorMessages, b \in BuiltIns}
  \cup {JsonApiError(m, b[1]) : m \in ErrorMessages, b \in BuiltIns}
  \cup {PlainError(m) : m \in ErrorMessages \cup {<<>>}}
  \cup {ThrownValue(Str(m)) : m \in ErrorMessages}

InitCatch ==
  /\ pc = "start"
  /\ registry = NoRegistry
  /\ request = NoRequest
  /\ options = NoOptions
  /\ serializer = "none"
  /\ data \in Exceptions
  /\ result = NoResult

Catch ==
  /\ pc = "start"
  /\ pc' = "caught"
  /\ result' = catch(data)
  /\ UNCHANGED <<request, registry, serializer, data, options>>

NextCatch == Catch

SpecCatch == InitCatch /\ [][NextCatch]_vars

\* a built-in HttpException made with a message string, such as
\* new NotFoundException('User not found')
NamedWithMessage ==
  data.class = "HttpException" /\ data.description # <<>> /\ data.argument.t = "str"

\* C22: for an HttpException with status c, error name e and message m the filter responds
\* with status c and one error object {status: String(c), title: e, detail: m}; for a
\* non-HTTP Error with message m it responds with 500, title 'Internal Server Error' and
\* detail m
C22_Original ==
  pc = "caught" =>
    /\ NamedWithMessage =>
         /\ result.status = data.status
         /\ result.body.errors =
              <<[status |-> Str(NumToStr(data.status)), title |-> Str(data.description),
                 detail |-> data.argument]>>
    /\ (data.class = "Error" /\ Truthy(data.argument)) =>
         /\ result.status = 500
         /\ result.body.errors =
              <<[status |-> Str(NumToStr(500)), title |-> Str(InternalServerErrorText),
                 detail |-> data.argument]>>

\* ---------------------------------------------------------------------------
\* SpecNested: one query parameter filter[f][op]=v is parsed into the plan and the plan is
\* turned into QueryFilters by the repository proxy; data names f, op and v
\* ---------------------------------------------------------------------------

NestedOperators == {EqWord, NeWord, GtWord, GteWord, LtWord, LteWord, InWord, NinWord, LikeWord}

NestedIntents ==
  {[field |-> f, op |-> op, value |-> v] :
     f \in {PriceName, StatusName, TitleName}, op \in NestedOperators, v \in {Hundred, Fifty, <<"a">>}}

InitNested ==
  /\ pc = "start"
  /\ registry = NoRegistry
  /\ serializer = "none"
  /\ options = NoOptions
  /\ result = NoResult
  /\ data \in NestedIntents
  /\ request = [query |-> FilterQuery(<<data>>), allowedFilters |-> Undefined, allowedIncludes |-> Undefined]

ParseNested ==
  /\ pc = "start"
  /\ pc' = "parsed"
  /\ options' = getAutoOptions(options, request)
  /\ UNCHANGED <<request, registry, serializer, data, result>>

BuildQueryParams ==
  /\ pc = "parsed"
  /\ pc' = "built"
  /\ result' = buildQueryParams(options)
  /\ UNCHANGED <<request, registry, serializer, data, options>>

NextNested == ParseNested \/ BuildQueryParams

SpecNested == InitNested /\ [][NextNested]_vars

\* C23: for filter[f][op]=v the parsed filter map has exactly one entry, f with the value
\* {op: v}, and buildQueryParams yields exactly the QueryFilter {field: f, operator: op,
\* value: v}; nothing is created under another key such as f][op
C23_Original ==
  /\ pc \in {"parsed", "built"} =>
       options.filter = <<[k |-> data.field, v |-> Obj(<<[k |-> data.op, v |-> Str(data.value)]>>)]>>
  /\ pc = "built" =>
       result.filters = <<[field |-> data.field, operator |-> data.op, value |-> Str(data.value)]>>

\* ---------------------------------------------------------------------------
\* SpecPipeline: serialize of a collection, or of one object, under a request that may
\* filter by status, sort by price, ask for a page and include the authors
\* ---------------------------------------------------------------------------

\* longest collection that goes through the stages
MaxPiped == 3

StatusFilterKey == FilterPrefix \o <<"[">> \o StatusName \o <<"]">>

\* the article at position i: its author is user i
PipedArticle(i, status, price) ==
  Obj(IdName :> Num(i) @@ TitleName :> Word("t") @@ StatusName :> Word(status) @@ PriceName :> Num(price)
      @@ AuthorName :> User(i, "n", <<>>))

PipedCollections ==
  {[i \in 1..Len(parts) |-> PipedArticle(i, parts[i][1], parts[i][2])] :
     parts \in SeqsOf({"a", "b"} \X {1, 2}, 0, MaxPiped)}

PipedQueries ==
  {f \o s \o p \o i :
     f \in {<<>>, <<[k |-> StatusFilterKey, v |-> Word("a")]>>},
     s \in {<<>>, <<[k |-> SortKey, v |-> Str(PriceName)]>>, <<[k |-> SortKey, v |-> Str(<<"-">> \o PriceName)]>>},
     p \in {<<>>} \cup {PageQuery(n, size) : n \in 1..(MaxPiped - 1), size \in 1..(MaxPiped - 1)},
     i \in {<<>>, IncludeQuery(<<AuthorName>>)}}

InitPipeline ==
  /\ pc = "start"
  /\ registry = NoRegistry
  /\ serializer = "ArticleSerializer"
  /\ options = NoOptions
  /\ result = NoResult
  /\ \E items \in PipedCollections : data \in {Arr(items)} \cup Elements(items)
  /\ \E q \in PipedQueries : request = [query |-> q, allowedFilters |-> Undefined, allowedIncludes |-> Undefined]

SerializePiped ==
  /\ pc = "start"
  /\ pc' = "piped"
  /\ registry' = registerByClassName(registry, serializer)
  /\ result' = serialize(registry', serializer, data, options, request)
  /\ UNCHANGED <<request, serializer, data, options>>

NextPipeline == SerializePiped

SpecPipeline == InitPipeline /\ [][NextPipeline]_vars

\* what the request asks for
FilterAsked == OHas(request.query, StatusFilterKey)
SortAsked == OHas(request.query, SortKey)
Descending == OGet(request.query, SortKey) = Str(<<"-">> \o PriceName)
PageAsked == OHas(request.query, PageNumberKey)
IncludeAsked == OHas(request.query, IncludeKey)
PageAskedNumber == CHOOSE n \in 1..MaxPiped : Str(NumToStr(n)) = OGet(request.query, PageNumberKey)
PageAskedSize == CHOOSE n \in 1..MaxPiped : Str(NumToStr(n)) = OGet(request.query, PageSizeKey)

PassesStatus(item) == Prop(item, StatusName) = OGet(request.query, StatusFilterKey)

\* the stages applied one after the other to the input collection
AfterFilter == IF FilterAsked THEN SelectSeq(data.v, PassesStatus) ELSE data.v

PriceFirst(a, b) ==
  IF Descending THEN Prop(a, PriceName).v > Prop(b, PriceName).v
  ELSE Prop(a, PriceName).v < Prop(b, PriceName).v

\* position of AfterFilter[i] after a stable sort by price
PriceRank(i) ==
  Cardinality({j \in 1..Len(AfterFilter) :
                 \/ PriceFirst(AfterFilter[j], AfterFilter[i])
                 \/ Prop(AfterFilter[j], PriceName) = Prop(AfterFilter[i], PriceName) /\ j < i}) + 1

AfterSort ==
  IF SortAsked
  THEN [k \in 1..Len(AfterFilter) |-> AfterFilter[CHOOSE i \in 1..Len(AfterFilter) : PriceRank(i) = k]]
  ELSE AfterFilter

AfterPage ==
  IF PageAsked
  THEN SubSeq(AfterSort, (PageAskedNumber - 1) * PageAskedSize + 1,
              Min(PageAskedNumber * PageAskedSize, Len(AfterSort)))
  ELSE AfterSort

IdsOf(records) == [i \in 1..Len(records) |-> Str(ToStr(Prop(records[i], IdName)))]
ResourceIds(resources) == [i \in 1..Len(resources) |-> resources[i].id]

\* C24: for a collection the stages run in the order filter, sort, pagination, projection,
\* include: meta.total counts the items that pass the filter, data is the page of the
\* filtered and sorted sequence, and included holds the authors of the items on the page
\* and no other; for a single object no filter, sort or pagination is applied
C24_StageOrder ==
  pc = "piped" =>
    /\ ~IsThrown(result)
    /\ data.t = "array" =>
         /\ ResourceIds(result.v.data.v) = IdsOf(AfterPage)
         /\ PageAsked => result.v.meta.total = Len(AfterFilter)
         /\ IncludeAsked => Elements(ResourceIds(result.v.included)) = Elements(IdsOf(AfterPage))
    /\ data.t # "array" =>
         /\ result.v.data.id = Str(ToStr(Prop(data, IdName)))
         /\ DOMAIN result.v \subseteq {"data", "included"}
         /\ IncludeAsked => ResourceIds(result.v.included) = <<Str(ToStr(Prop(data, IdName)))>>

\* three articles, one fails the filter, the two others change places in the sort and the
\* second page of size 1 holds the one that came first in the input
C24_Witness ==
  /\ pc = "piped"
  /\ data.t = "array"
  /\ Len(data.v) = 3
  /\ Len(AfterFilter) = 2
  /\ AfterSort # AfterFilter
  /\ PageAsked /\ PageAskedNumber = 2 /\ PageAskedSize = 1
  /\ IncludeAsked
  /\ result.v.meta.total = 2
  /\ Len(result.v.data.v) = 1
  /\ result.v.data.v[1].id = IdsOf(AfterFilter)[1]
  /\ ResourceIds(result.v.included) = <<IdsOf(AfterFilter)[1]>>

\* ---------------------------------------------------------------------------
\* SpecFrame: a caller passes its own options object to getAutoOptions or to serialize;
\* options is the caller's object, result keeps the value it had when it was passed
\* together with what the call returned
\* ---------------------------------------------------------------------------

CallerFields == {<<>>, <<[k |-> ArticleType, v |-> Arr(<<TitleName>>)]>>}

CallerOptions ==
  {NoOptions}
  \cup {[fields |-> f] : f \in CallerFields}
  \cup {[include |-> <<AuthorName>>, fields |-> f] : f \in CallerFields}
  \cup {[pagination |-> [NoPagination EXCEPT !.number = Num(1), !.size = Num(1)],
         filter |-> <<[k |-> StatusName, v |-> Word("a")]>>]}

FrameQueries ==
  {f \o u \o p \o i \o s :
     f \in {<<>>, <<Param(ArticleFieldsKey, Str(BodyName))>>, <<Param(ArticleFieldsKey, Str(TitleName))>>},
     u \in {<<>>, <<Param(FieldsPrefix \o UserType \o <<"]">>, Str(NameName))>>},
     p \in {<<>>, PageQuery(2, 2)},
     i \in {<<>>, IncludeQuery(<<CommentsName>>)},
     s \in {<<>>, <<Param(StatusFilterKey, Word("b"))>>}}

InitFrame ==
  /\ pc = "start"
  /\ registry = NoRegistry
  /\ serializer = "ArticleSerializer"
  /\ data = SoundRecord
  /\ result = NoResult
  /\ options \in CallerOptions
  /\ \E q \in FrameQueries, al \in {Undefined, Arr(<<StatusName>>)} :
       request = [query |-> q, allowedFilters |-> al, allowedIncludes |-> Undefined]

\* plan = getAutoOptions(options)
GetAutoOptions ==
  /\ pc = "start"
  /\ pc' = "planned"
  /\ result' = [passed |-> options, returned |-> getAutoOptions(options, request)]
  /\ options' = existingOptionsAfter(options, request)
  /\ UNCHANGED <<request, registry, serializer, data>>

\* serialize(serializer, data, options)
SerializeWithOptions ==
  /\ pc = "start"
  /\ pc' = "serialized"
  /\ registry' = registerByClassName(registry, serializer)
  /\ result' = [passed |-> options, returned |-> serialize(registry', serializer, data, options, request)]
  /\ options' = existingOptionsAfter(options, request)
  /\ UNCHANGED <<request, serializer, data>>

\* the allow-list step of the repository proxy on a plan it holds
AllowListStep ==
  /\ pc = "planned"
  /\ pc' = "allowed"
  /\ ~IsThrown(result.returned)
  /\ result' = [result EXCEPT !.returned = allowedAgain(result.returned, request.allowedFilters)]
  /\ UNCHANGED <<request, registry, serializer, data, options>>

NextFrame == GetAutoOptions \/ SerializeWithOptions \/ AllowListStep

SpecFrame == InitFrame /\ [][NextFrame]_vars

\* C25: getAutoOptions(existingOptions) and serialize(serializer, data, options) leave the
\* caller's options object as it was, its fields map, pagination, filter and include list
\* included, and the proxy's allow-list step does not change a plan that has been built
C25_Original ==
  /\ [](pc # "start" => options = result.passed)
  /\ [][AllowListStep => result'.returned = result.returned]_vars

\* ---------------------------------------------------------------------------
\* Relationships hidden by their condition, in the documents of SpecFailure
\* ---------------------------------------------------------------------------

\* the relationship is on the requested include path
OnRequestedPath(rel) == RequestedPath # <<>> /\ Split(RequestedPath, ".")[1] = rel.name

\* the included resource is the projection of the related object of the relationship
IncludedFor(rel, related) ==
  "included" \in DOMAIN result.v /\
  \E r \in Elements(result.v.included) :
    Str(r.type) = rel.resourceType /\ r.id = Str(ToStr(Prop(related, IdName)))

\* another primary item shows the same related object through the relationship
ShownElsewhere(rel, related, item) ==
  \E other \in PrimaryItems \ {item} : VisibleRelationship(rel, other) /\ related \in LinkedObjects(rel, other)

HiddenIn(resource, rel) ==
  "relationships" \notin DOMAIN resource \/ ~OHas(resource.relationships, rel.name)

\* C26: a relationship whose condition is false for an item has no linkage entry in the
\* item's relationships and, also when its name is on the requested include path, none of
\* its related objects is added to included through that item
C26_Original ==
  (pc = "finished" /\ ~IsThrown(result) /\ serializer = "ArticleSerializer") =>
    \A i \in 1..Len(PrimaryRecords) :
      \A rel \in RelationshipsOf(serializer) :
        ~VisibleRelationship(rel, PrimaryRecords[i]) =>
          /\ HiddenIn(PrimaryResources[i], rel)
          /\ OnRequestedPath(rel) =>
               \A related \in LinkedObjects(rel, PrimaryRecords[i]) :
                 ShownElsewhere(rel, related, PrimaryRecords[i]) \/ ~IncludedFor(rel, related)

\* ---------------------------------------------------------------------------
\* SpecPageSize: a handler returns a collection and JSONAPIResponseInterceptor, with
\* pagination enabled, serializes it under every kind of page parameters
\* ---------------------------------------------------------------------------

\* largest page size and page number a request asks for
MaxAsked == 2

\* collections up to one item more than the largest page asked for, and one that is longer
\* than the default page
ShownTotals == (0..(MaxAsked + 1)) \cup {DefaultPageSize + 1}

AskedNumbers == {<<>>} \cup {<<Str(NumToStr(n))>> : n \in 1..MaxAsked}
AskedSizes == {<<>>} \cup {<<Str(NumToStr(s))>> : s \in 1..MaxAsked}
AskedCursors == {<<>>, <<PageAfterKey, Str(CursorToken(ArticleType, <<"1">>))>>,
                 <<PageBeforeKey, Str(CursorToken(ArticleType, <<"2">>))>>}

\* page[number]=n&page[size]=s&page[after]=c as flat keys, each part optional
FlatPage(number, size, cursor) ==
  (IF number = <<>> THEN <<>> ELSE <<Param(PageNumberKey, number[1])>>)
  \o (IF size = <<>> THEN <<>> ELSE <<Param(PageSizeKey, size[1])>>)
  \o (IF cursor = <<>> THEN <<>> ELSE <<Param(cursor[1], cursor[2])>>)

\* the same parameters as the query parser of the host delivers them when it nests
\* brackets: query.page = {number, size}
NestedPage(number, size) ==
  <<Param(PagePrefix, Obj((IF number = <<>> THEN <<>> ELSE NumberWord :> number[1])
                          @@ (IF size = <<>> THEN <<>> ELSE SizeWord :> size[1])))>>

PageSizeQueries ==
  {FlatPage(n, s, c) : n \in AskedNumbers, s \in AskedSizes, c \in AskedCursors}
  \cup {NestedPage(n, s) : n \in AskedNumbers, s \in AskedSizes}

InitPageSize ==
  /\ pc = "start"
  /\ registry = NoRegistry
  /\ serializer = "ArticleSerializer"
  /\ options = NoOptions
  /\ result = NoResult
  /\ \E n \in ShownTotals : data = Arr(Collection(n))
  /\ \E q \in PageSizeQueries : request = [query |-> q, allowedFilters |-> Undefined, allowedIncludes |-> Undefined]

InterceptCollection ==
  /\ pc = "start"
  /\ pc' = "responded"
  /\ registry' = registerByClassName(registry, serializer)
  /\ result' = processResponse(registry', serializer, data, request)
  /\ UNCHANGED <<request, serializer, data, options>>

NextPageSize == InterceptCollection

SpecPageSize == InitPageSize /\ [][NextPageSize]_vars

\* page[size] of the request, flat or nested, <<>> when it has none
AskedSize ==
  IF OHas(request.query, PageSizeKey) THEN <<OGet(request.query, PageSizeKey)>>
  ELSE IF Prop(OGet(request.query, PagePrefix), SizeWord) # Undefined
       THEN <<Prop(OGet(request.query, PagePrefix), SizeWord)>>
       ELSE <<>>

\* the request's page[size] if given, otherwise the configured default size
EffectivePageSize ==
  IF AskedSize = <<>> THEN DefaultPageSize
  ELSE CHOOSE s \in 1..MaxAsked : Str(NumToStr(s)) = AskedSize[1]

\* C27: a collection response of the interceptor with pagination enabled never holds more
\* items in data than the effective page size, whatever page parameters the request
\* carries (none, size only, number only, both, a cursor) and in whichever form (flat keys
\* or a nested page object)
C27_Original ==
  pc = "responded" => Len(result.v.data.v) <= EffectivePageSize

\* ---------------------------------------------------------------------------
\* SpecTraverse: processIncluded step by step over objects that refer to each other, cycles
\* included. data is the object store and the roots, options the include path list, result
\* the call stack of process with the included map
\* ---------------------------------------------------------------------------

\* number of person objects in the store
MaxNodes == 2

\* most segments of an include path
MaxSegments == 3

Nodes == 1..MaxNodes

\* a person refers to one friend (0 for null) and to a list of friends
PersonStores ==
  [Nodes -> [friend : 0..MaxNodes, friends : {<<>>, [i \in Nodes |-> i]}]]

\* item[rel.property] of object n: a list of object references; no reference for null
RelatedOf(store, n, rel) ==
  IF rel.property = FriendName
  THEN (IF store[n].friend = 0 THEN <<>> ELSE <<store[n].friend>>)
  ELSE store[n].friends

\* what serializeItem reads of object n: its own properties and the id of each object it
\* refers to
PersonStub(n) == Obj(IdName :> Num(n) @@ NameName :> Word("n"))

PersonView(store, n) ==
  Obj(IdName :> Num(n) @@ NameName :> Word("n")
      @@ (IF store[n].friend = 0 THEN <<>> ELSE FriendName :> PersonStub(store[n].friend))
      @@ FriendsName :> Arr([i \in 1..Len(store[n].friends) |-> PersonStub(store[n].friends[i])]))

TraversePaths ==
  {Join(names, ".") : names \in SeqsOf({FriendName, FriendsName}, 1, MaxSegments)}
  \cup {FriendName \o <<".">>}

TraverseIncludes ==
  {<<p>> : p \in TraversePaths} \cup {<<FriendName, Dot(FriendsName, FriendName)>>}

\* a call process(serializerClass, item, includePaths) in progress: rel and item are the
\* positions of its two loops
Frame(serializerClass, node, includePaths, depth) ==
  [class |-> serializerClass, node |-> node, paths |-> includePaths, rel |-> 1, item |-> 1, depth |-> depth]

InitTraverse ==
  /\ pc = "start"
  /\ registry = NoRegistry
  /\ request = NoRequest
  /\ serializer = "PersonSerializer"
  /\ \E store \in PersonStores, roots \in {<<1>>, [i \in Nodes |-> i]} : data = [store |-> store, roots |-> roots]
  /\ \E paths \in TraverseIncludes : options = With(NoOptions, "include", paths)
  /\ result = [stack |-> <<>>, included |-> <<>>, root |-> 0, deepest |-> 0]

Top == result.stack[Len(result.stack)]
TopRelationships == Metadata(Top.class).relationships
TopRelationship == TopRelationships[Top.rel]
TopItems == RelatedOf(data.store, Top.node, TopRelationship)
Walking == pc = "walking" /\ result.stack # <<>>
InRelationship == Walking /\ Top.rel <= Len(TopRelationships)
ReplaceTop(frame) == [result.stack EXCEPT ![Len(result.stack)] = frame]

\* processIncluded calls process(mainSerializer, root, options.include) for the next root,
\* or returns when there is none left
CallRoot ==
  /\ pc \in {"start", "walking"}
  /\ result.stack = <<>>
  /\ IF result.root < Len(data.roots)
     THEN /\ pc' = "walking"
          /\ result' = [result EXCEPT !.stack = <<Frame(serializer, data.roots[result.root + 1], IncludeOf(options), 1)>>,
                                      !.root = @ + 1,
                                      !.deepest = Max(@, 1)]
     ELSE /\ pc' = "done"
          /\ result' = result
  /\ UNCHANGED <<request, registry, serializer, data, options>>

\* the relationship is not on an include path, or the object has nothing under it: continue
SkipRelationship ==
  /\ InRelationship
  /\ \/ ~relRequested(TopRelationship, Top.paths)
     \/ TopRelationship.property = FriendName /\ TopItems = <<>>
     \/ Top.item > Len(TopItems)
  /\ result' = [result EXCEPT !.stack = ReplaceTop([Top EXCEPT !.rel = @ + 1, !.item = 1])]
  /\ UNCHANGED <<pc, request, registry, serializer, data, options>>

RememberIncluded(included, serialized) ==
  IF OHas(included, includedKey(serialized)) THEN included
  ELSE OSet(included, includedKey(serialized), serialized)

\* one related object: it is projected and remembered, and process is called for it when
\* paths remain under the relationship
VisitPending ==
  /\ InRelationship
  /\ relRequested(TopRelationship, Top.paths)
  /\ Top.item <= Len(TopItems)
  /\ Len(result.stack) <= MaxSegments + 1

VisitRelated ==
  /\ VisitPending
  /\ LET related == TopItems[Top.item]
         relatedSerializer == relatedSerializerOf(registry, TopRelationship, PersonView(data.store, related))
         nextLevel == nextLevelIncludes(TopRelationship, Top.paths)
         serialized == serializeItem(relatedSerializer, PersonView(data.store, related),
                                     With(options, "include", nextLevel))
         advanced == ReplaceTop([Top EXCEPT !.item = @ + 1])
     IN result' = [result EXCEPT
                     !.included = RememberIncluded(@, serialized.v),
                     !.stack = IF nextLevel # <<>>
                               THEN Append(advanced, Frame(relatedSerializer, related, nextLevel, Top.depth + 1))
                               ELSE advanced,
                     !.deepest = IF nextLevel # <<>> THEN Max(@, Top.depth + 1) ELSE @]
  /\ UNCHANGED <<pc, request, registry, serializer, data, options>>

\* the loop over the relationships is over: the call returns
Return ==
  /\ Walking
  /\ Top.rel > Len(TopRelationships)
  /\ result' = [result EXCEPT !.stack = SubSeq(@, 1, Len(@) - 1)]
  /\ UNCHANGED <<pc, request, registry, serializer, data, options>>

NextTraverse == CallRoot \/ SkipRelationship \/ VisitRelated \/ Return

SpecTraverse == InitTraverse /\ [][NextTraverse]_vars

\* the calls are made by one thread, which runs on while a step is left. A visit always
\* moves the item position of the top call, so it is enabled exactly when VisitPending
\* holds, and weak fairness of VisitRelated is written with that predicate
SpecTraverseFair ==
  /\ SpecTraverse
  /\ WF_vars(CallRoot)
  /\ WF_vars(SkipRelationship)
  /\ WF_vars(Return)
  /\ ([]<>(~VisitPending) \/ []<><<VisitRelated>>_vars)

SegmentsOf(path) == Len(Split(path, "."))

LongestRequested ==
  CHOOSE m \in 1..(MaxSegments + 1) :
    /\ \E i \in 1..Len(IncludeOf(options)) : SegmentsOf(IncludeOf(options)[i]) = m
    /\ \A i \in 1..Len(IncludeOf(options)) : SegmentsOf(IncludeOf(options)[i]) <= m

\* every path of a call at depth d has lost d - 1 segments of a requested path
ShorterAtDepth(frame) ==
  \A i \in 1..Len(frame.paths) : SegmentsOf(frame.paths[i]) + frame.depth - 1 <= LongestRequested

\* C28: processIncluded terminates for every object graph, cyclic ones included, and every
\* include path list: each recursive call gets strictly shorter paths, so the depth of the
\* recursion never exceeds the largest number of segments of a requested path
C28_Terminates ==
  /\ <>(pc = "done")
  /\ [](result.deepest <= LongestRequested)
  /\ [](\A i \in 1..Len(result.stack) : result.stack[i].depth = i /\ ShorterAtDepth(result.stack[i]))

\* a person who is its own friend was walked for friend.friend.friend down to depth 3 and
\* the walk ended with that one person in included
C28_Witness ==
  /\ pc = "done"
  /\ data.store[1].friend = 1
  /\ IncludeOf(options) = <<Join(<<FriendName, FriendName, FriendName>>, ".")>>
  /\ result.deepest = 3
  /\ Len(result.included) = 1

\* ---------------------------------------------------------------------------
\* SpecFollow: a client reads a collection by cursor: the first request carries page[after],
\* each later request is the URL of links.next of the page before
\* ---------------------------------------------------------------------------

\* longest collection that is read page by page
MaxFollowTotal == 4
\* most pages a client requests
MaxFollowed == 6

\* encodeURIComponent over the characters of the model: letters, digits and - are kept
EncodeChar(c) ==
  CASE c = "[" -> <<"%", "5", "B">>
    [] c = "]" -> <<"%", "5", "D">>
    [] c = ":" -> <<"%", "3", "A">>
    [] c = "=" -> <<"%", "3", "D">>
    [] c = "&" -> <<"%", "2", "6">>
    [] c = "%" -> <<"%", "2", "5">>
    [] OTHER -> <<c>>

RECURSIVE encodeURIComponent(_)
encodeURIComponent(s) ==
  IF s = <<>> THEN <<>> ELSE EncodeChar(s[1]) \o encodeURIComponent(Tail(s))

DecodeEscape(hex) ==
  CASE hex = <<"5", "B">> -> "["
    [] hex = <<"5", "D">> -> "]"
    [] hex = <<"3", "A">> -> ":"
    [] hex = <<"3", "D">> -> "="
    [] hex = <<"2", "6">> -> "&"
    [] hex = <<"2", "5">> -> "%"
    [] OTHER -> "?"

\* the percent-decoding the host applies to each key and value of a query string
RECURSIVE decodeURIComponent(_)
decodeURIComponent(s) ==
  IF s = <<>> THEN <<>>
  ELSE IF s[1] = "%" /\ Len(s) >= 3
  THEN <<DecodeEscape(SubSeq(s, 2, 3))>> \o decodeURIComponent(SubSeq(s, 4, Len(s)))
  ELSE <<s[1]>> \o decodeURIComponent(Tail(s))

\* the string-valued parameters of the current request, in their order
getCurrentQuery(req) == SelectSeq(req.query, LAMBDA entry : entry.v.t = "str")

\* {...currentQuery, key: value}
RECURSIVE SpreadInto(_, _)
SpreadInto(params, replaced) ==
  IF replaced = <<>> THEN params
  ELSE SpreadInto(OSet(params, replaced[1][1], Str(replaced[1][2])), Tail(replaced))

buildQueryString(params) ==
  Join([i \in 1..Len(params) |->
          encodeURIComponent(params[i].k) \o <<"=">> \o encodeURIComponent(params[i].v.v)], "&")

\* the query of a request URL as the host hands it over: one entry per key=value pair
ParsePair(pair) ==
  LET i == IndexOf(pair, "=") IN
  IF i = 0 THEN [k |-> decodeURIComponent(pair), v |-> Str(<<>>)]
  ELSE [k |-> decodeURIComponent(SubSeq(pair, 1, i - 1)),
        v |-> Str(decodeURIComponent(SubSeq(pair, i + 1, Len(pair))))]

ParseQueryString(s) == IF s = <<>> THEN <<>> ELSE MapSeq(Split(s, "&"), ParsePair)

\* the request a client makes when it follows a link of the page served for req
FollowLink(req, link) ==
  [req EXCEPT !.query = ParseQueryString(buildQueryString(SpreadInto(getCurrentQuery(req), link)))]

ColonIds == <<Str(<<"1">>), Str(<<"1", ":", "2">>), Str(<<"1", ":", "3">>)>>

TypedItems(items, type) == [i \in 1..Len(items) |-> Typed(items[i], type)]

\* collections with pairwise distinct ids: numbers in both orders, one-letter strings,
\* strings with a colon; with and without a type property
FollowCollections ==
  LET plain == {Collection(n) : n \in 0..MaxFollowTotal}
               \cup {[i \in 1..n |-> Entity(n + 1 - i)] : n \in 2..MaxFollowTotal}
               \cup {[i \in 1..Len(WordIds) |-> Obj(IdName :> WordIds[i])],
                     [i \in 1..Len(ColonIds) |-> Obj(IdName :> ColonIds[i])]}
  IN plain \cup {TypedItems(items, ArticleType) : items \in plain}

FollowIds ==
  {NatToStr(i) : i \in 1..(MaxFollowTotal + 1)} \cup {<<"a">>, <<"1", ":", "2">>}

FollowSizes == {<<>>, <<NatToStr(1)>>, <<NatToStr(2)>>, <<NumToStr(-1)>>}

\* a parameter the pagination does not read: none, a string, a repeated parameter
OtherParams ==
  {<<>>, <<[k |-> <<"x">>, v |-> Word("1")]>>, <<[k |-> <<"x">>, v |-> Arr(<<Word("1"), Word("2")>>)]>>}

FollowRequests ==
  {[query |-> other \o <<[k |-> PageAfterKey, v |-> Str(CursorToken(ArticleType, id))]>> \o SizeQuery(size),
    allowedFilters |-> Undefined, allowedIncludes |-> Undefined] :
     id \in FollowIds, size \in FollowSizes, other \in OtherParams}

\* result: the first request, the page data served so far, and the links of the last page
InitFollow ==
  /\ pc = "request"
  /\ registry = NoRegistry
  /\ serializer = NoSerializer
  /\ data \in FollowCollections
  /\ request \in FollowRequests
  /\ options = NoOptions
  /\ result = [first |-> request, pages |-> <<>>, links |-> <<>>]

\* one request: the options are read from the query and the page is cut
ServePage ==
  /\ pc = "request"
  /\ options' = getAutoOptions(NoOptions, request)
  /\ result' = [result EXCEPT
                  !.pages = Append(@, applyPagination(data, options'.pagination).data),
                  !.links = applyPagination(data, options'.pagination).links]
  /\ pc' = IF "next" \in DOMAIN applyPagination(data, options'.pagination).links THEN "served" ELSE "done"
  /\ UNCHANGED <<request, registry, serializer, data>>

\* the client requests the URL of links.next
FollowNext ==
  /\ pc = "served"
  /\ Len(result.pages) < MaxFollowed
  /\ request' = FollowLink(request, result.links.next)
  /\ pc' = "request"
  /\ UNCHANGED <<registry, serializer, data, options, result>>

NextFollow == ServePage \/ FollowNext

SpecFollow == InitFollow /\ [][NextFollow]_vars

\* a waiting request is answered, and the client follows a next link it was given, while
\* it has requests left
Answered == pc = "request" /\ pc' \in {"served", "done"}

Followed == pc = "served" /\ Len(result.pages) < MaxFollowed /\ pc' = "request"

SpecFollowFair == SpecFollow /\ WF_pc(Answered) /\ WF_pc(Followed)

RECURSIVE Flatten(_)
Flatten(pages) == IF pages = <<>> THEN <<>> ELSE Head(pages) \o Flatten(Tail(pages))

\* the identifier of the starting cursor
FirstAfterIdentifier ==
  CHOOSE id \in FollowIds : OGet(result.first.query, PageAfterKey) = Str(CursorToken(ArticleType, id))

\* 1-based position of the item the starting cursor names, 0 when no item has its identifier
FirstCursorPosition ==
  IF \E i \in 1..Len(data) : ToStr(Prop(data[i], IdName)) = FirstAfterIdentifier
  THEN CHOOSE i \in 1..Len(data) : ToStr(Prop(data[i], IdName)) = FirstAfterIdentifier
  ELSE 0

ItemsAfterCursor == SubSeq(data, FirstCursorPosition + 1, Len(data))

\* the starting cursor names an item of the collection
CursorKnown == FirstCursorPosition > 0

\* C29: for pairwise distinct ids, following links.next from any page requested with
\* page[after] ends after finitely many requests at a page without links.next, and the
\* pages read are, end to end, exactly the items after the item the starting cursor names,
\* in collection order
C29_Original ==
  /\ <>(pc = "done")
  /\ [](pc = "done" /\ CursorKnown => Flatten(result.pages) = ItemsAfterCursor)

\* ---------------------------------------------------------------------------
\* Offset pagination: the metadata against the returned data (SpecPagination)
\* ---------------------------------------------------------------------------

TotalsRequested == pc = "paginated" /\ options.pagination.count # Bool(FALSE)

\* the page number links.last addresses
LastLinkPage == ParseInt(result.links.last[1][2]).v

MetaCountsData == result.meta.to - result.meta.from + 1 = Len(result.data)

MetaWithinTotal ==
  result.data # <<>> =>
    /\ 1 <= result.meta.from
    /\ result.meta.from <= result.meta.to
    /\ result.meta.to <= result.meta.total

\* C30: for every offset page with totals requested, pages beyond the last and the empty
\* collection included, meta.to - meta.from + 1 is the number of returned items,
\* 1 <= from <= to <= total when data is returned, and links.last addresses a page >= 1
C30_Original ==
  TotalsRequested => MetaCountsData /\ MetaWithinTotal /\ LastLinkPage >= 1

====
